---------------------------- MODULE Spec2Model ----------------------------
(***************************************************************************)
(* A model of the trade automation engine of the repository: the request   *)
(* rate limiter (rate_limiter.py), the card selector (card_selector.py),   *)
(* the per-owner retry loop (owners_parser.py) and the trade manager with  *)
(* its history monitor (trade.py), the daily statistics (daily_stats.py),  *)
(* the boost monitor (monitor.py), the card replacement                    *)
(* (card_replacement.py) and the main loop (main.py).                      *)
(*                                                                         *)
(* Specifications:                                                         *)
(*   SpecRL1     the rate limiter used by one caller                       *)
(*   SpecRL2     the rate limiter shared by two threads                    *)
(*   SpecRLFair  the same, the threads being scheduled fairly              *)
(*   SpecNorm    normalize_wanters applied to pairs of demands             *)
(*   SpecSelect  select_from_parsed applied to the possible parsed caches  *)
(*   SpecBest    select_best_card applied to the files found on disk       *)
(*   Spec        the trade flow without a history monitor: the             *)
(*               foreground thread processing the owners of a page, and    *)
(*               the remote side                                           *)
(*   SpecMonitor the trade flow with the history monitor thread running    *)
(*   SpecChange  the trade flow with the boost monitor thread, which sets   *)
(*               card_changed                                              *)
(*   SpecStats   the daily statistics manager (daily_stats.py) and the      *)
(*               club page it reads                                        *)
(*   SpecRetry   the trade flow with a record of the trade-creation        *)
(*               requests of each owner                                    *)
(*   SpecDelay   the trade flow with the delays of the retry loop          *)
(*   SpecBoost   the trade flow beside the boost monitor thread            *)
(*               (monitor.py)                                              *)
(*   SpecFlows   the contribute flow and the replacement flows             *)
(*               (card_replacement.py)                                     *)
(*   SpecApp     the loop of run_processing_mode with its wait mode        *)
(*               (main.py) around the trade flow                           *)
(*   SpecReconcile the trade flow, the history monitor and the callers of  *)
(*               cancel_all_sent_trades                                    *)
(*   SpecFind    find_partner_card_instance, request by request            *)
(*   SpecSignal  the target card handed from the boost monitor to          *)
(*               run_processing_mode                                       *)
(*   SpecPairs   send_trade_to_owner called again and again                *)
(*   SpecThreads start, stop and monitor_loop of a background monitor      *)
(***************************************************************************)
EXTENDS Integers, Sequences, FiniteSets, TLC

--------------------------------------------------------------------------
(* Bounds of the model *)

\* RateLimiter(max_requests, window_seconds, retry_delay): the constructor's
\* arguments, scaled down from the defaults 66, 60 and 15.
max_requests == 2
window_seconds == 3
retry_delay == 2
\* The clock stops at MaxTime; at most MaxCalls requests are recorded.
MaxTime == 7
MaxCalls == 5
\* time.sleep(d) suspends for at least d: it returns after d .. d+MaxOversleep.
MaxOversleep == 1

Threads == {1, 2}

VARIABLES
    now,            \* time.time(), in whole ticks
    requests,       \* RateLimiter.requests: deque of request timestamps
    paused_until,   \* RateLimiter.paused_until
    rl_pc,          \* per thread: position inside wait_and_record
    callers,        \* the threads that use the limiter
    recorded,       \* every timestamp record_request has appended, in order
    pause_end,      \* time.time() + retry_delay of the last pause_for_429, 0 if none
    early_records,  \* the timestamps record_request appended before pause_end
    inventory,      \* inventory.json: the instance ids of the unparsed cards
    parsed,         \* parsed_inventory.json: card_id -> cached record
    locked_cards,   \* TradeManager.locked_cards
    target_wanters, \* boost_card["wanters_count"]
    exclude_instances, \* the exclusion set handed to select_trade_card
    selected_card,  \* what the last selection call returned
    sel_path,       \* which path of select_best_card produced selected_card
    norm_in,        \* arguments of the last normalize_wanters calls
    norm_out,       \* their results
    fg_pc,          \* position of the foreground thread
    cycle_count,    \* cycles of run_processing_mode begun
    card_changed,   \* BoostMonitor.card_changed
    fg_op,          \* the TradeManager operation the foreground thread ran last
    owner_idx,      \* index of the owner being processed on the page
    attempt,        \* loop variable of process_owner_with_retry
    failed_attempts_set, \* OwnersProcessor.failed_attempts_set
    sends,          \* send_trade_func calls made by the current process_owner_with_retry
    creates,        \* create_trade_direct_api calls made by it
    ret,            \* result of the last process_owner_with_retry, <<>> while it runs
    his_instance_id, \* result of find_partner_card_instance
    find_error,     \* whether its requests raised network errors: none, some, all
    success,        \* result of send_trade_func
    sent_trades,    \* TradeManager.sent_trades
    response,       \* the response to the last trade-creation request
    create_ret,     \* result of create_trade_direct_api
    cancel_status,  \* status of the last cancel-all response, 0 for a network error
    cancel_ret,     \* result of cancel_all_sent_trades
    offers,         \* the remote trade history: offers by id
    trade_statuses, \* TradeHistoryMonitor.trade_statuses
    traded_away_cards, \* TradeHistoryMonitor.traded_away_cards
    h_pc,           \* position of the history monitor thread
    h_trades,       \* the trades its last fetch_recent_trades returned
    h_idx,          \* index of the trade it is processing
    h_inv,          \* the inventory its _remove_card_from_inventory loaded
    completed_polls, \* per offer: the polls that observed it completed (up to 2)
    removed_for,    \* per offer: the instances removed from inventory.json for it
    page,           \* the club boost page as the remote serves it
    _cached_stats,  \* DailyStatsManager._cached_stats
    st_op,          \* the DailyStatsManager method called last
    st_force,       \* its force_refresh argument
    st_page,        \* the page the remote served to that call
    st_before,      \* _cached_stats when the call began
    st_stats,       \* the snapshot get_stats returned to it
    st_bool,        \* the boolean the call returned
    app             \* what the application adds around the trade flow: see AppIdle

rl_vars == <<now, requests, paused_until, rl_pc, callers, recorded,
            pause_end, early_records>>
sel_vars == <<inventory, parsed, locked_cards, target_wanters,
              exclude_instances, selected_card, sel_path, norm_in, norm_out>>

fg_vars == <<cycle_count, card_changed, fg_pc, fg_op, owner_idx, attempt, failed_attempts_set, sends,
             creates, ret, his_instance_id, find_error, success, sent_trades, response,
             create_ret, cancel_status, cancel_ret>>
h_vars == <<offers, trade_statuses, traded_away_cards, h_pc, h_trades, h_idx, h_inv,
           completed_polls, removed_for>>
st_vars == <<page, _cached_stats, st_op, st_force, st_page, st_before,
             st_stats, st_bool>>

vars == <<now, requests, paused_until, rl_pc, callers, recorded,
          pause_end, early_records,
          inventory, parsed, locked_cards, target_wanters,
          exclude_instances, selected_card, sel_path, norm_in, norm_out,
          fg_pc, cycle_count, card_changed, fg_op, owner_idx, attempt, failed_attempts_set, sends,
          creates, ret, his_instance_id, find_error, success, sent_trades, response,
          create_ret, cancel_status, cancel_ret,
          offers, trade_statuses, traded_away_cards, h_pc, h_trades, h_idx, h_inv,
          completed_polls, removed_for,
          page, _cached_stats, st_op, st_force, st_page, st_before,
          st_stats, st_bool, app>>

--------------------------------------------------------------------------
(* The cards of the model *)

\* Python's None where a card record is expected
None == [card_id |-> 0, rank |-> "", wanters_count |-> 0, instance_id |-> 0]

\* The card kinds (card_id) 1..7: the demand the remote reports for each
\* kind (count_wants) and the rank of each kind.
WantersOf == <<0, 1, 3, 6, 8, 71, 7>>
RankOf == <<"A", "A", "A", "A", "A", "A", "B">>
Cards == DOMAIN WantersOf

\* The physical cards (instance ids); instance i is of kind CardOf(i).
MaxInst == 13
Instances == 1..MaxInst
CardOf(i) == ((i - 1) % Len(WantersOf)) + 1

\* boost_card["rank"]
target_rank == "A"

--------------------------------------------------------------------------
(* utils.py, inventory.py *)

\* utils.extract_card_data of the inventory entry of instance i
extract_card_data(i) ==
    [card_id |-> CardOf(i), rank |-> RankOf[CardOf(i)], instance_id |-> i]

\* InventoryManager.remove_card: load, list.remove, save
remove_card(inv, i) == inv \ {i}

--------------------------------------------------------------------------
(* card_selector.py *)

MAX_WANTERS_ALLOWED == 70
LOW_WANTERS_THRESHOLD == 5
MAX_CARD_SELECTION_ATTEMPTS == 50

\* Mutant: the threshold itself is not treated as low demand.
normalize_wanters_strict(wanters_count) ==
    IF wanters_count < LOW_WANTERS_THRESHOLD THEN 0 ELSE wanters_count

\* Mutant: demands above the threshold are counted from the threshold.
normalize_wanters_offset(wanters_count) ==
    IF wanters_count <= LOW_WANTERS_THRESHOLD THEN 0
    ELSE wanters_count - LOW_WANTERS_THRESHOLD

\* normalize_wanters
normalize_wanters(wanters_count) ==
    IF wanters_count <= LOW_WANTERS_THRESHOLD THEN 0 ELSE wanters_count

\* An availability check that ignores the locks
is_card_available_ignoring_locks(instance_id, locked) == TRUE

\* CardSelector.is_card_available (used_cards is never filled: the selector
\* is constructed anew by every select_trade_card call)
is_card_available(instance_id, locked) == instance_id \notin locked

\* parsers.count_wants for a card kind: the demand, or -1 on an error
count_wants(card_id) == {-1, WantersOf[card_id]}

\* utils.is_cache_valid compares cached_at with the wall clock: an entry may
\* be found still valid or expired, depending on the time of the call.
is_cache_valid(cached) == BOOLEAN

\* CardSelector.parse_and_cache_card for inventory card i: the possible
\* results [res, mem, file], mem the parsed_inventory dict of the caller,
\* file the contents of parsed_inventory.json.
parse_and_cache_card(i, mem, file, locked) ==
    LET card_data == extract_card_data(i)
        cid == card_data.card_id
        \* a valid entry is returned with its instance_id overwritten in
        \* the caller's dict; nothing is saved
        hit == [res  |-> [mem[cid] EXCEPT !.instance_id = i],
                mem  |-> [mem EXCEPT ![cid].instance_id = i],
                file |-> file]
        miss == {IF w < 0 \/ w > MAX_WANTERS_ALLOWED
                 THEN [res |-> None, mem |-> mem, file |-> file]
                 ELSE LET parsed_card == [card_id |-> cid,
                                          rank |-> card_data.rank,
                                          wanters_count |-> w,
                                          instance_id |-> i]
                          mem2 == [mem EXCEPT ![cid] = parsed_card]
                      IN  [res |-> parsed_card, mem |-> mem2, file |-> mem2]
                 : w \in count_wants(cid)}
    IN  IF ~is_card_available(i, locked)
        THEN {[res |-> None, mem |-> mem, file |-> file]}
        ELSE IF mem[cid] # None
        THEN UNION {IF valid THEN {hit} ELSE miss : valid \in is_cache_valid(mem[cid])}
        ELSE miss

\* CardSelector.filter_cards_by_rank
filter_cards_by_rank(inv, rank, locked) ==
    {i \in inv : extract_card_data(i).rank = rank /\ is_card_available(i, locked)}

\* CardSelector.select_from_unparsed: random.shuffle, then both loops pop a
\* card, remove it from inventory.json, parse it and return it when its
\* normalized demand reaches the normalized target. The possible outcomes
\* [card, inventory, mem, file].
RECURSIVE select_from_unparsed(_, _, _, _, _, _, _)
select_from_unparsed(available_cards, inv, mem, file, target, locked, attempts) ==
    IF available_cards = {}
    THEN {[card |-> None, inventory |-> inv, mem |-> mem, file |-> file]}
    ELSE UNION {
           UNION {
             IF o.res # None
                /\ normalize_wanters(o.res.wanters_count) >= normalize_wanters(target)
             THEN {[card |-> o.res, inventory |-> remove_card(inv, random_card),
                    mem |-> o.mem, file |-> o.file]}
             ELSE select_from_unparsed(available_cards \ {random_card},
                                       remove_card(inv, random_card),
                                       o.mem, o.file, target, locked,
                                       IF attempts < MAX_CARD_SELECTION_ATTEMPTS
                                       THEN attempts + 1 ELSE attempts)
             : o \in parse_and_cache_card(random_card, mem, file, locked)}
           : random_card \in available_cards}

\* The loop of select_from_parsed: the cached records that pass the rank,
\* exclusion, availability and ceiling filters.
EligibleParsed(mem, rank, exclude, locked) ==
    {mem[c] : c \in {k \in Cards :
        /\ mem[k] # None
        /\ mem[k].rank = rank
        /\ mem[k].instance_id \notin exclude
        /\ is_card_available(mem[k].instance_id, locked)
        /\ mem[k].wanters_count <= MAX_WANTERS_ALLOWED}}

\* Mutant: the closest lower item is preferred to the qualifying ones.
select_from_parsed_lower_first(mem, rank, target, exclude, locked) ==
    LET normalized_target == normalize_wanters(target)
        eligible == EligibleParsed(mem, rank, exclude, locked)
        suitable_greater_equal ==
            {c \in eligible : normalize_wanters(c.wanters_count) >= normalized_target}
        suitable_less ==
            {c \in eligible : normalize_wanters(c.wanters_count) < normalized_target}
    IN  IF suitable_less # {}
        THEN {c \in suitable_less :
                \A d \in suitable_less :
                    normalize_wanters(d.wanters_count) <= normalize_wanters(c.wanters_count)}
        ELSE IF suitable_greater_equal # {}
        THEN suitable_greater_equal
        ELSE {None}

\* Mutant: any lower item is returned when no item qualifies.
select_from_parsed_any_lower(mem, rank, target, exclude, locked) ==
    LET normalized_target == normalize_wanters(target)
        eligible == EligibleParsed(mem, rank, exclude, locked)
        suitable_greater_equal ==
            {c \in eligible : normalize_wanters(c.wanters_count) >= normalized_target}
        suitable_less ==
            {c \in eligible : normalize_wanters(c.wanters_count) < normalized_target}
    IN  IF suitable_greater_equal # {}
        THEN suitable_greater_equal
        ELSE IF suitable_less # {}
        THEN suitable_less
        ELSE {None}

\* CardSelector.select_from_parsed: the possible results
select_from_parsed(mem, rank, target, exclude, locked) ==
    LET normalized_target == normalize_wanters(target)
        eligible == EligibleParsed(mem, rank, exclude, locked)
        suitable_greater_equal ==
            {c \in eligible : normalize_wanters(c.wanters_count) >= normalized_target}
        suitable_less ==
            {c \in eligible : normalize_wanters(c.wanters_count) < normalized_target}
    IN  IF suitable_greater_equal # {}
        THEN suitable_greater_equal
        ELSE IF suitable_less # {}
        THEN {c \in suitable_less :
                \A d \in suitable_less :
                    normalize_wanters(d.wanters_count) <= normalize_wanters(c.wanters_count)}
        ELSE {None}

\* CardSelector.select_best_card: the possible outcomes
\* [card, path, inventory, parsed].
select_best_card(inv, file, rank, target, exclude, locked) ==
    IF inv = {} /\ \A c \in Cards : file[c] = None
    THEN {[card |-> None, path |-> "empty", inventory |-> inv, parsed |-> file]}
    ELSE LET available_cards == filter_cards_by_rank(inv, rank, locked)
             fromParsed(i2, m2, f2) ==
                 {[card |-> c, path |-> "parsed", inventory |-> i2, parsed |-> f2]
                    : c \in select_from_parsed(m2, rank, target, exclude, locked)}
         IN  IF available_cards # {}
             THEN UNION {
                    IF o.card # None
                    THEN {[card |-> o.card, path |-> "unparsed",
                           inventory |-> o.inventory, parsed |-> o.file]}
                    ELSE fromParsed(o.inventory, o.mem, o.file)
                    : o \in select_from_unparsed(available_cards, inv, file, file,
                                                 target, locked, 0)}
             ELSE fromParsed(inv, file, file)

\* select_trade_card
select_trade_card(inv, file, rank, target, locked, exclude) ==
    IF rank = ""
    THEN {[card |-> None, path |-> "empty", inventory |-> inv, parsed |-> file]}
    ELSE select_best_card(inv, file, rank, target, exclude, locked)

--------------------------------------------------------------------------
(* rate_limiter.py *)

\* RateLimiter._cleanup_old_requests: pops from the left while the oldest
\* timestamp is strictly below the cutoff.
RECURSIVE _cleanup_old_requests(_, _)
_cleanup_old_requests(reqs, current_time) ==
    IF reqs # <<>> /\ reqs[1] < current_time - window_seconds
    THEN _cleanup_old_requests(Tail(reqs), current_time)
    ELSE reqs

\* A time.sleep that never returns
sleep_forever(t, wait_time) == {}

\* time.sleep(wait_time) started at time t: the times at which it may return.
SleepReturns(t, wait_time) == {t + wait_time + o : o \in 0..MaxOversleep}

\* RateLimiter.__init__
RLInit(cs) ==
    /\ now = 0
    /\ requests = <<>>
    /\ paused_until = 0
    /\ rl_pc = [t \in Threads |-> "idle"]
    /\ callers = cs
    /\ recorded = <<>>
    /\ pause_end = 0
    /\ early_records = {}

\* RateLimiter.wait_and_record is called: the thread is about to take
\* self.lock in _wait_if_needed.  No call begins after MaxTime, and at most
\* MaxCalls calls are made.
wait_and_record(th) ==
    /\ th \in callers
    /\ rl_pc[th] = "idle"
    /\ now <= MaxTime
    /\ Len(recorded) + Cardinality({t \in Threads : rl_pc[t] # "idle"}) < MaxCalls
    /\ rl_pc' = [rl_pc EXCEPT ![th] = "called"]
    /\ UNCHANGED <<now, requests, paused_until, callers, recorded,
                   pause_end, early_records>>

\* RateLimiter._wait_if_needed, the whole region under self.lock. The sleeps
\* happen with the lock held, so no other limiter operation interleaves.
_wait_if_needed(th) ==
    /\ rl_pc[th] = "called"
    /\ \E t1 \in (IF paused_until > now
                  THEN SleepReturns(now, paused_until - now)
                  ELSE {now}) :
         LET pu == IF paused_until > now THEN 0 ELSE paused_until
             r1 == _cleanup_old_requests(requests, t1)
             full == Len(r1) >= max_requests
             wait_time == IF full THEN (r1[1] + window_seconds) - t1 ELSE 0
         IN  \E t2 \in (IF full /\ wait_time > 0
                        THEN SleepReturns(t1, wait_time)
                        ELSE {t1}) :
               /\ now' = t2
               /\ paused_until' = pu
               /\ requests' = IF full /\ wait_time > 0
                              THEN _cleanup_old_requests(r1, t2)
                              ELSE r1
    /\ rl_pc' = [rl_pc EXCEPT ![th] = "record"]
    /\ UNCHANGED <<callers, recorded, pause_end, early_records>>

\* RateLimiter.record_request (second half of wait_and_record)
record_request(th) ==
    /\ rl_pc[th] = "record"
    /\ requests' = Append(requests, now)
    /\ recorded' = Append(recorded, now)
    /\ early_records' = IF now < pause_end THEN early_records \cup {now}
                        ELSE early_records
    /\ rl_pc' = [rl_pc EXCEPT ![th] = "idle"]
    /\ UNCHANGED <<now, paused_until, callers, pause_end>>

\* RateLimiter.pause_for_429
pause_for_429(th) ==
    /\ th \in callers
    /\ rl_pc[th] = "idle"
    /\ now + retry_delay <= MaxTime
    /\ paused_until' = now + retry_delay
    /\ pause_end' = now + retry_delay
    /\ UNCHANGED <<now, requests, rl_pc, callers, recorded, early_records>>

\* RateLimiter.get_current_rate: cleans the deque up, returns its length.
get_current_rate(th) ==
    /\ th \in callers
    /\ rl_pc[th] = "idle"
    /\ requests' = _cleanup_old_requests(requests, now)
    /\ requests' # requests
    /\ UNCHANGED <<now, paused_until, rl_pc, callers, recorded,
                   pause_end, early_records>>

\* The clock advances.
Tick ==
    /\ now < MaxTime
    /\ now' = now + 1
    /\ UNCHANGED <<requests, paused_until, rl_pc, callers, recorded,
                   pause_end, early_records>>

--------------------------------------------------------------------------
(* daily_stats.py: DailyStatsManager *)

MAX_DAILY_DONATIONS == 50
MAX_DAILY_REPLACEMENTS == 10

\* Python's None where a statistics snapshot is expected
NoStats ==
    [donations_used |-> -1, donations_max |-> -1,
     replacements_used |-> -1, replacements_max |-> -1,
     donations_left |-> -1, replacements_left |-> -1]

\* What the page shows: the pair <<used, maximum>> of the donations rule and
\* of the replacements block, <<>> where the page has no such text.
DonationRules == {<<>>, <<0, 50>>, <<49, 50>>, <<50, 50>>, <<51, 50>>}
ReplacementBlocks == {<<>>, <<0, 10>>, <<10, 10>>}
\* The status of the response; 0 stands for a requests.RequestException.
PageStatuses == {200, 500, 0}
Pages ==
    [status : PageStatuses, donations : DonationRules,
     replacements : ReplacementBlocks]

\* The snapshot fetch_stats_from_page builds, NoStats for its None.  The
\* fields time_until_reset and reset_time_formatted depend on the clock only
\* and are left out.
fetch_stats_from_page(pg) ==
    IF pg.status # 200 THEN NoStats
    ELSE LET replacements_data == pg.replacements
             donations_data == pg.donations
             replacements == IF replacements_data # <<>> THEN replacements_data
                             ELSE <<0, MAX_DAILY_REPLACEMENTS>>
             donations == IF donations_data # <<>> THEN donations_data
                          ELSE <<0, MAX_DAILY_DONATIONS>>
         IN  [donations_used |-> donations[1], donations_max |-> donations[2],
              replacements_used |-> replacements[1],
              replacements_max |-> replacements[2],
              donations_left |-> donations[2] - donations[1],
              replacements_left |-> replacements[2] - replacements[1]]

\* The snapshot get_stats returns when the fetch failed
permissive_stats ==
    [donations_used |-> 0, donations_max |-> MAX_DAILY_DONATIONS,
     replacements_used |-> 0, replacements_max |-> MAX_DAILY_REPLACEMENTS,
     donations_left |-> MAX_DAILY_DONATIONS,
     replacements_left |-> MAX_DAILY_REPLACEMENTS]

\* get_stats ignoring force_refresh whenever a snapshot is cached
get_stats_prefer_cache(force_refresh, cached, pg) ==
    IF cached = NoStats
    THEN LET stats == fetch_stats_from_page(pg)
         IN  IF stats = NoStats
             THEN [stats |-> permissive_stats, cached |-> cached]
             ELSE [stats |-> stats, cached |-> stats]
    ELSE [stats |-> cached, cached |-> cached]

\* get_stats falling back to the cached snapshot when the fetch failed
get_stats_cached_on_failure(force_refresh, cached, pg) ==
    IF force_refresh \/ cached = NoStats
    THEN LET stats == fetch_stats_from_page(pg)
         IN  IF stats = NoStats
             THEN [stats |-> IF cached = NoStats THEN permissive_stats ELSE cached,
                   cached |-> cached]
             ELSE [stats |-> stats, cached |-> stats]
    ELSE [stats |-> cached, cached |-> cached]

\* get_stats(force_refresh): the snapshot returned and _cached_stats after
\* the call (fetch_stats_from_page caches what it fetched).
get_stats(force_refresh, cached, pg) ==
    IF force_refresh \/ cached = NoStats
    THEN LET stats == fetch_stats_from_page(pg)
         IN  IF stats = NoStats
             THEN [stats |-> permissive_stats, cached |-> cached]
             ELSE [stats |-> stats, cached |-> stats]
    ELSE [stats |-> cached, cached |-> cached]

\* The part common to the calls: get_stats runs, the call is recorded.
StatsCall(op, force_refresh) ==
    /\ st_op' = op
    /\ st_force' = force_refresh
    /\ st_page' = page
    /\ st_before' = _cached_stats
    /\ st_stats' = get_stats(force_refresh, _cached_stats, page).stats
    /\ _cached_stats' = get_stats(force_refresh, _cached_stats, page).cached
    /\ UNCHANGED page

CallGetStats ==
    /\ \E force_refresh \in BOOLEAN : StatsCall("get_stats", force_refresh)
    /\ UNCHANGED st_bool

can_donate ==
    /\ \E force_refresh \in BOOLEAN : StatsCall("can_donate", force_refresh)
    /\ st_bool' = (st_stats'.donations_left > 0)

can_replace ==
    /\ \E force_refresh \in BOOLEAN : StatsCall("can_replace", force_refresh)
    /\ st_bool' = (st_stats'.replacements_left > 0)

can_work ==
    /\ \E force_refresh \in BOOLEAN : StatsCall("can_work", force_refresh)
    /\ st_bool' = (st_stats'.donations_left > 0 \/ st_stats'.replacements_left > 0)

\* refresh_stats: fetch_stats_from_page, its result dropped
refresh_stats ==
    /\ st_op' = "refresh_stats"
    /\ st_force' = TRUE
    /\ st_page' = page
    /\ st_before' = _cached_stats
    /\ st_stats' = NoStats
    /\ _cached_stats' = IF fetch_stats_from_page(page) = NoStats
                        THEN _cached_stats ELSE fetch_stats_from_page(page)
    /\ UNCHANGED <<page, st_bool>>

\* The club page changes: the site fails or recovers, donations are used or
\* reset at midnight, replacements are used or reset.
PageChanges ==
    /\ \/ \E status \in PageStatuses \ {page.status} :
              page' = [page EXCEPT !.status = status]
       \/ \E donations \in DonationRules \ {page.donations} :
              page' = [page EXCEPT !.donations = donations]
       \/ \E replacements \in ReplacementBlocks \ {page.replacements} :
              page' = [page EXCEPT !.replacements = replacements]
    /\ UNCHANGED <<_cached_stats, st_op, st_force, st_page, st_before,
                   st_stats, st_bool>>

\* No statistics have been asked for.
StatsIdle ==
    /\ page = [status |-> 200, donations |-> <<>>, replacements |-> <<>>]
    /\ _cached_stats = NoStats
    /\ st_op = ""
    /\ st_force = FALSE
    /\ st_page = page
    /\ st_before = NoStats
    /\ st_stats = NoStats
    /\ st_bool = FALSE

--------------------------------------------------------------------------
(* trade.py: TradeManager and TradeHistoryMonitor *)

NumOwners == 2
MaxOffers == 1
MaxCycles == 1
\* The card kind the owners hold (his_card_id) and the instances of it that
\* find_partner_card_instance may resolve.
his_card_id == 7
PartnerInstances == {1, 2}
\* find_partner_card_instance asks for at most max_batches ranges of the
\* partner's cards and tries each request MAX_TIMEOUT_RETRIES times; scaled
\* down from 10 and 3.
max_batches == 4
MAX_TIMEOUT_RETRIES == 2

\* What find_partner_card_instance may return from range batch_count on, its
\* request being at try timeout_retry: his is the instance found, 0 for None;
\* error tells whether none, some or all of the requests made raised a
\* network error (erred: one raised, answered: one was answered).
RECURSIVE find_from(_, _, _, _)
find_from(batch_count, timeout_retry, erred, answered) ==
    LET summary(e, a) == IF ~e THEN "none" ELSE IF a THEN "some" ELSE "all"
    IN  IF batch_count >= max_batches
        THEN {[his |-> 0, error |-> summary(erred, answered)]}
        ELSE \* session.post raises: another try, or the range is skipped
             (IF timeout_retry < MAX_TIMEOUT_RETRIES - 1
              THEN find_from(batch_count, timeout_retry + 1, TRUE, answered)
              ELSE find_from(batch_count + 1, 0, TRUE, answered))
             \* the range is answered and holds the card
             \cup {[his |-> i, error |-> summary(erred, TRUE)] :
                      i \in PartnerInstances}
             \* the range is answered and does not hold it
             \cup find_from(batch_count + 1, 0, erred, TRUE)

\* A cancel_all_sent_trades that takes a network error for a success
cancel_all_result_optimistic(status) == status \in {200, 0}

find_partner_card_instance == find_from(0, 0, FALSE, FALSE)

\* The responses the remote may give to a trade-creation request; status 0
\* stands for a requests.RequestException raised by session.post.
Resp(st, loc, js, txt) ==
    [status |-> st, location_trades |-> loc, json_success |-> js, text_success |-> txt]
NoResponse == Resp(-1, FALSE, FALSE, FALSE)
NetworkError == Resp(0, FALSE, FALSE, FALSE)
Responses ==
    {Resp(200, FALSE, FALSE, FALSE), Resp(302, TRUE, FALSE, FALSE),
     Resp(302, FALSE, FALSE, FALSE), Resp(201, FALSE, TRUE, FALSE),
     Resp(500, FALSE, FALSE, TRUE), Resp(500, FALSE, FALSE, FALSE),
     Resp(422, FALSE, FALSE, TRUE), Resp(429, FALSE, TRUE, FALSE),
     NetworkError}

\* TradeManager._is_success_response
_is_success_response(r) ==
    \/ r.status = 200
    \/ r.status \in {301, 302} /\ r.location_trades
    \/ r.json_success
    \/ r.text_success

\* A has_trade_sent that knows of no trade
has_trade_sent_never(receiver_id, card_id) == FALSE

\* TradeManager.has_trade_sent
has_trade_sent(receiver_id, card_id) == <<receiver_id, card_id>> \in sent_trades

\* A create_trade_direct_api that locks the card before it looks at the
\* status code
create_trade_outcome_lock_first(my_instance_id, r, locked) ==
    IF my_instance_id \in locked THEN [ret |-> FALSE, locked |-> locked]
    ELSE IF r.status = 0 THEN [ret |-> FALSE, locked |-> locked]
    ELSE [ret |-> r.status \notin {422, 429} /\ _is_success_response(r),
          locked |-> locked \cup {my_instance_id}]

\* The outcome [ret, locked] of create_trade_direct_api for the response r
create_trade_outcome(my_instance_id, r, locked) ==
    IF my_instance_id \in locked THEN [ret |-> FALSE, locked |-> locked]
    ELSE IF r.status = 0 THEN [ret |-> FALSE, locked |-> locked]
    ELSE IF r.status = 429 THEN [ret |-> FALSE, locked |-> locked]
    ELSE IF r.status = 422 THEN [ret |-> FALSE, locked |-> locked]
    ELSE IF _is_success_response(r)
    THEN [ret |-> TRUE, locked |-> locked \cup {my_instance_id}]
    ELSE [ret |-> FALSE, locked |-> locked]

\* The remote history page: the offers as fetch_recent_trades returns them
RemoteTrades ==
    [k \in DOMAIN offers |->
        [trade_id |-> k, status |-> offers[k].status, lost_card |-> offers[k].card]]

\* TradeHistoryMonitor._remove_card_from_inventory, its load half: the card
\* it will remove from the loaded inventory (cards_to_remove[0]), 0 if none
first_card_to_remove(inv, card_id) ==
    LET cards_to_remove == {i \in inv : CardOf(i) = card_id}
    IN  IF cards_to_remove = {} THEN 0
        ELSE CHOOSE i \in cards_to_remove : \A j \in cards_to_remove : i <= j

\* One more poll has observed the trade with the given status.
observed(polls, trade) ==
    IF trade.status = "completed" /\ polls[trade.trade_id] < 2
    THEN [polls EXCEPT ![trade.trade_id] = @ + 1]
    ELSE polls

\* TradeHistoryMonitor.check_and_remove_traded_cards run without
\* interruption over the trades from index k on:
\* [statuses, away, inventory, polls, removed]
RECURSIVE check_and_remove_traded_cards(_, _, _, _, _, _, _)
check_and_remove_traded_cards(trades, k, statuses, away, inv, polls, removed) ==
    IF k > Len(trades)
    THEN [statuses |-> statuses, away |-> away, inventory |-> inv,
          polls |-> polls, removed |-> removed]
    ELSE LET trade == trades[k]
             previous_status == statuses[trade.trade_id]
             current_status == trade.status
             victim == first_card_to_remove(inv, trade.lost_card)
             seen == observed(polls, trade)
         IN  IF previous_status = "none" /\ current_status = "completed"
             THEN IF trade.lost_card \notin away /\ victim # 0
                  THEN check_and_remove_traded_cards(trades, k + 1,
                          [statuses EXCEPT ![trade.trade_id] = "completed"],
                          away \cup {trade.lost_card}, inv \ {victim}, seen,
                          [removed EXCEPT ![trade.trade_id] = Append(@, victim)])
                  ELSE check_and_remove_traded_cards(trades, k + 1,
                          [statuses EXCEPT ![trade.trade_id] = "completed"],
                          away, inv, seen, removed)
             ELSE IF previous_status = "completed" /\ current_status = "cancelled"
             THEN check_and_remove_traded_cards(trades, k + 1,
                          [statuses EXCEPT ![trade.trade_id] = "cancelled"],
                          away \ {trade.lost_card}, inv, seen, removed)
             ELSE check_and_remove_traded_cards(trades, k + 1,
                          [statuses EXCEPT ![trade.trade_id] = current_status],
                          away, inv, seen, removed)

\* The foreground thread and the history monitor are at rest, nothing sent.
\* The fields of app before anything of the application has run.
\*   create_log       the trade-creation requests the current call of
\*                    process_owner_with_retry has sent, in order
\*   last_trade_time  OwnersProcessor.last_trade_time
\*   delay_pc         the sleep process_owner_with_retry is in: "wait"
\*                    (_wait_before_trade), "pause" (time.sleep(1) after a
\*                    failed attempt), "random" (_add_random_delay), or "run"
\*   last_send        time.time() when send_trade_func was last called, 0 if
\*                    it never was
\*   monitor_pc       position of BoostMonitor's thread, "off" without one
\*   monitor_log      the requests the handler BoostMonitor's thread is in
\*                    (contribute_card, handle_card_change_without_boost) has
\*                    issued, in order
\*   main_pc          position of the main thread in run_processing_mode and
\*                    in the replacement flows it calls, "idle" outside them
\*   main_ret         where the replacement flow it is in returns to
\*   main_flow        the replacement flow entered last
\*   main_log         the requests that replacement flow has issued, in order
\*   main_result      whether the replacement flow that returned last returned
\*                    a new card
\*   main_quota       what the forced can_donate checks of the current
\*                    iteration of run_processing_mode's loop reported: "yes",
\*                    "no" once one of them reported no donations left, "none"
\*                    before the first
\*   card_file        the card_id of the card in boost_card.json
\*   current_card_id  the card run_processing_mode loaded for its cycle
\*   signalled        the card in boost_card.json when BoostMonitor's thread
\*                    set card_changed last, 0 before
\*   stale_cycle      whether the cycle over the owners began for another
\*                    card than the one signalled
AppStart ==
    [create_log |-> <<>>, last_trade_time |-> 0, delay_pc |-> "run",
     last_send |-> 0, monitor_pc |-> "off", monitor_log |-> <<>>,
     main_pc |-> "idle", main_ret |-> "idle", main_flow |-> "",
     main_log |-> <<>>, main_result |-> FALSE, main_quota |-> "none",
     card_file |-> 1, current_card_id |-> 0, signalled |-> 0,
     stale_cycle |-> FALSE]

AppIdle == app = AppStart

FlowIdle ==
    /\ AppIdle
    /\ fg_pc = "off"
    /\ card_changed = FALSE
    /\ cycle_count = 0
    /\ fg_op = ""
    /\ owner_idx = 1
    /\ attempt = 0
    /\ failed_attempts_set = {}
    /\ sends = 0
    /\ creates = 0
    /\ ret = <<>>
    /\ his_instance_id = 0
    /\ find_error = "none"
    /\ success = FALSE
    /\ sent_trades = {}
    /\ response = NoResponse
    /\ create_ret = FALSE
    /\ cancel_status = -1
    /\ cancel_ret = FALSE
    /\ offers = <<>>
    /\ trade_statuses = [k \in 1..MaxOffers |-> "none"]
    /\ traded_away_cards = {}
    /\ h_pc = "off"
    /\ h_trades = <<>>
    /\ h_idx = 0
    /\ h_inv = {}
    /\ completed_polls = [k \in 1..MaxOffers |-> 0]
    /\ removed_for = [k \in 1..MaxOffers |-> <<>>]
    /\ StatsIdle

--------------------------------------------------------------------------
(* owners_parser.py: OwnersProcessor, and the calls it makes *)

MAX_RETRY_ATTEMPTS == 3

\* A process_page_by_page that goes on to the next owner whatever
\* process_owner_with_retry returned
return_to_owners_loop(result) ==
    /\ ret' = result
    /\ owner_idx' = owner_idx + 1
    /\ fg_pc' = "owners"
    /\ exclude_instances' = {}
    /\ attempt' = 0
    /\ selected_card' = None
    /\ sel_path' = "unset"

\* The return of process_owner_with_retry: the locals of the call are gone;
\* process_page_by_page returns when should_break is set and goes on with
\* its owners loop otherwise.
Return(result) ==
    /\ ret' = result
    /\ IF result[2]
       THEN fg_pc' = "cycle_end" /\ owner_idx' = owner_idx
       ELSE fg_pc' = "owners" /\ owner_idx' = owner_idx + 1
    /\ exclude_instances' = {}
    /\ attempt' = 0
    /\ selected_card' = None
    /\ sel_path' = "unset"

\* A loop that runs one iteration more than range(1, MAX_RETRY_ATTEMPTS + 1)
has_next_attempt_inclusive(a) == a <= MAX_RETRY_ATTEMPTS

\* for attempt in range(1, MAX_RETRY_ATTEMPTS + 1): whether another
\* iteration follows the given one
has_next_attempt(a) == a < MAX_RETRY_ATTEMPTS

\* BoostMonitor's thread sets card_changed (monitor.py, contribute_card,
\* handle_card_change_without_boost and monitor_loop).
CardChanged ==
    /\ fg_pc # "off"
    /\ ~card_changed
    /\ card_changed' = TRUE
    /\ UNCHANGED <<rl_vars, sel_vars, h_vars, st_vars, cycle_count, fg_pc, fg_op,
                   owner_idx, attempt, failed_attempts_set, sends, creates, ret,
                   his_instance_id, find_error, success, sent_trades, response, create_ret,
                   cancel_status, cancel_ret>>

\* process_page_by_page: the check before each owner of the page
NextOwner ==
    /\ fg_pc = "owners"
    /\ cycle_count <= MaxCycles
    /\ owner_idx <= NumOwners
    /\ fg_pc' = IF card_changed THEN "cycle_end" ELSE "entry"
    /\ UNCHANGED <<st_vars, card_changed, cycle_count, rl_vars, h_vars, sel_vars, fg_op,
                   owner_idx, attempt, failed_attempts_set, sends, creates, ret,
                   his_instance_id, find_error, success, sent_trades, response, create_ret,
                   cancel_status, cancel_ret>>

\* process_owner_with_retry, from its entry to the first iteration
StartOwner ==
    /\ fg_pc = "entry"
    /\ sends' = 0
    /\ creates' = 0
    /\ fg_op' = ""
    /\ cancel_status' = -1
    /\ cancel_ret' = FALSE
    /\ \E is_blacklisted \in BOOLEAN :
         IF is_blacklisted
         THEN Return(<<FALSE, FALSE>>)
         ELSE IF card_changed
         THEN Return(<<FALSE, TRUE>>)
         ELSE /\ exclude_instances' = failed_attempts_set
              /\ attempt' = 1
              /\ ret' = <<>>
              /\ fg_pc' = "select"
              /\ UNCHANGED <<owner_idx, selected_card, sel_path>>
    /\ UNCHANGED <<st_vars, card_changed, cycle_count, rl_vars, h_vars, inventory, parsed, locked_cards, target_wanters,
                   norm_in, norm_out, failed_attempts_set, his_instance_id, find_error,
                   success, sent_trades, response, create_ret>>

\* process_owner_with_retry: the check at the start of an attempt, then
\* select_card_func (select_trade_card)
SelectCard ==
    /\ fg_pc = "select"
    /\ IF card_changed
       THEN Return(<<FALSE, TRUE>>) /\ UNCHANGED <<inventory, parsed>>
       ELSE \E o \in select_trade_card(inventory, parsed, target_rank,
                                        target_wanters, locked_cards,
                                        exclude_instances) :
              /\ inventory' = o.inventory
              /\ parsed' = o.parsed
              /\ IF o.card = None
                 THEN Return(<<FALSE, FALSE>>)
                 ELSE /\ selected_card' = o.card
                      /\ sel_path' = o.path
                      /\ fg_pc' = "send"
                      /\ UNCHANGED <<ret, owner_idx, exclude_instances, attempt>>
    /\ UNCHANGED <<st_vars, card_changed, cycle_count, rl_vars, h_vars, locked_cards, target_wanters,
                   norm_in, norm_out, fg_op, failed_attempts_set, sends,
                   creates, his_instance_id, find_error, success, sent_trades, response,
                   create_ret, cancel_status, cancel_ret>>

\* process_owner_with_retry: the check just before sending, then
\* send_trade_func (send_trade_to_owner) up to find_partner_card_instance,
\* whose result is None (0) or one of the partner's instances
SendTrade ==
    /\ fg_pc = "send"
    /\ IF card_changed
       THEN /\ Return(<<FALSE, TRUE>>)
            /\ UNCHANGED <<sends, success, his_instance_id, find_error, paused_until,
                           inventory, parsed, locked_cards, target_wanters,
                           norm_in, norm_out>>
       ELSE /\ sends' = sends + 1
            /\ success' = FALSE
            /\ IF has_trade_sent(owner_idx, his_card_id)
               THEN fg_pc' = "result" /\ UNCHANGED <<his_instance_id, find_error, paused_until>>
               ELSE \E found \in find_partner_card_instance :
                      /\ paused_until' = IF paused_until > now THEN 0
                                         ELSE paused_until
                      /\ his_instance_id' = found.his
                      /\ find_error' = found.error
                      /\ fg_pc' = IF found.his = 0 THEN "result" ELSE "create"
            /\ UNCHANGED <<sel_vars, owner_idx, attempt, ret>>
    /\ UNCHANGED <<st_vars, card_changed, cycle_count, now, requests, rl_pc, callers, recorded,
                   pause_end, early_records, h_vars, fg_op,
                   failed_attempts_set, creates, sent_trades, response,
                   create_ret, cancel_status, cancel_ret>>

\* TradeManager.create_trade_direct_api
CreateTrade ==
    /\ fg_pc = "create"
    /\ creates' = creates + 1
    /\ fg_op' = "create_trade"
    /\ \E r \in IF selected_card.instance_id \in locked_cards
                THEN {NoResponse} ELSE Responses :
         LET out == create_trade_outcome(selected_card.instance_id, r, locked_cards)
         IN  /\ out.ret => Len(offers) < MaxOffers
             /\ response' = r
             /\ create_ret' = out.ret
             /\ locked_cards' = out.locked
             /\ paused_until' = IF r.status = 429 THEN now + retry_delay
                                ELSE paused_until
             /\ offers' = IF out.ret
                          THEN Append(offers, [inst |-> selected_card.instance_id,
                                               card |-> selected_card.card_id,
                                               status |-> "pending"])
                          ELSE offers
    /\ fg_pc' = "created"
    /\ UNCHANGED <<st_vars, card_changed, cycle_count, now, requests, rl_pc, callers, recorded,
                   pause_end, early_records,
                   inventory, parsed, target_wanters, exclude_instances,
                   selected_card, sel_path, norm_in, norm_out,
                   owner_idx, attempt, failed_attempts_set, sends, ret,
                   his_instance_id, find_error, success, sent_trades, cancel_status, cancel_ret,
                   trade_statuses, traded_away_cards, h_pc, h_trades, h_idx, h_inv,
                   completed_polls, removed_for>>

\* send_trade_to_owner after create_trade_direct_api: mark_trade_sent
MarkTradeSent ==
    /\ fg_pc = "created"
    /\ success' = create_ret
    /\ sent_trades' = IF create_ret
                      THEN sent_trades \cup {<<owner_idx, his_card_id>>}
                      ELSE sent_trades
    /\ fg_pc' = "result"
    /\ fg_op' = ""
    /\ response' = NoResponse
    /\ create_ret' = FALSE
    /\ his_instance_id' = 0
    /\ find_error' = "none"
    /\ UNCHANGED <<st_vars, card_changed, cycle_count, rl_vars, h_vars, sel_vars, owner_idx, attempt,
                   failed_attempts_set, sends, creates, ret,
                   cancel_status, cancel_ret>>

\* process_owner_with_retry after send_trade_func returned
AfterSend ==
    /\ fg_pc = "result"
    /\ success' = FALSE
    /\ his_instance_id' = 0
    /\ find_error' = "none"
    /\ IF success
       THEN /\ failed_attempts_set' = {}
            /\ Return(<<TRUE, FALSE>>)
       ELSE /\ failed_attempts_set' =
                   failed_attempts_set \cup {selected_card.instance_id}
            /\ IF has_next_attempt(attempt)
               THEN /\ exclude_instances' =
                           exclude_instances \cup {selected_card.instance_id}
                    /\ attempt' = attempt + 1
                    /\ fg_pc' = "select"
                    /\ UNCHANGED <<ret, owner_idx, selected_card, sel_path>>
               ELSE Return(<<FALSE, FALSE>>)
    /\ UNCHANGED <<st_vars, card_changed, cycle_count, rl_vars, h_vars, inventory, parsed, locked_cards, target_wanters,
                   norm_in, norm_out, fg_op, sends, creates, sent_trades,
                   response, create_ret, cancel_status, cancel_ret>>

\* process_page_by_page: the last owner of the last page is done
FinishPages ==
    /\ fg_pc = "owners"
    /\ cycle_count <= MaxCycles
    /\ owner_idx > NumOwners
    /\ fg_pc' = "cycle_end"
    /\ UNCHANGED <<st_vars, card_changed, cycle_count, rl_vars, h_vars, sel_vars, fg_op, owner_idx, attempt,
                   failed_attempts_set, sends, creates, ret, his_instance_id, find_error,
                   success, sent_trades, response, create_ret, cancel_status,
                   cancel_ret>>

\* A clear_sent_trades that forgets to clear locked_cards
clear_sent_trades_keep_locks(sent, locked) == [sent |-> {}, locked |-> locked]

\* TradeManager.clear_sent_trades: [sent, locked] afterwards
clear_sent_trades(sent, locked) == [sent |-> {}, locked |-> {}]

\* The statuses cancel_all_sent_trades may be answered with; 0 stands for a
\* requests.RequestException.
CancelStatuses == {200, 500, 0}

\* The result of cancel_all_sent_trades for the status it was answered with
cancel_all_result(status) == status = 200

\* run_processing_mode: cancel_all_sent_trades(..., history_monitor) at the
\* end of a cycle. The remote rejects every pending offer when it answers 200;
\* force_check runs only if there is a history monitor (h_pc is not "off").
CancelAllSentTrades ==
    /\ fg_pc = "cycle_end"
    /\ fg_op' = "cancel_all"
    /\ \E status \in CancelStatuses :
         /\ cancel_status' = status
         /\ cancel_ret' = cancel_all_result(status)
         /\ IF cancel_all_result(status)
            THEN LET cleared == clear_sent_trades(sent_trades, locked_cards)
                     rejected == [k \in DOMAIN offers |->
                                    IF offers[k].status = "pending"
                                    THEN [offers[k] EXCEPT !.status = "cancelled"]
                                    ELSE offers[k]]
                     trades == [k \in DOMAIN rejected |->
                                  [trade_id |-> k, status |-> rejected[k].status,
                                   lost_card |-> rejected[k].card]]
                     checked ==
                         IF h_pc = "off"
                         THEN [statuses |-> trade_statuses,
                               away |-> traded_away_cards,
                               inventory |-> inventory,
                               polls |-> completed_polls,
                               removed |-> removed_for]
                         ELSE check_and_remove_traded_cards(
                                    trades, 1, trade_statuses, traded_away_cards,
                                    inventory, completed_polls, removed_for)
                 IN  /\ sent_trades' = cleared.sent
                     /\ locked_cards' = cleared.locked
                     /\ offers' = rejected
                     /\ trade_statuses' = checked.statuses
                     /\ traded_away_cards' = checked.away
                     /\ inventory' = checked.inventory
                     /\ completed_polls' = checked.polls
                     /\ removed_for' = checked.removed
            ELSE UNCHANGED <<sent_trades, locked_cards, offers, trade_statuses,
                             traded_away_cards, inventory, completed_polls,
                             removed_for>>
    /\ owner_idx' = 1
    /\ cycle_count' = cycle_count + 1
    /\ card_changed' = FALSE
    /\ fg_pc' = "owners"
    /\ UNCHANGED <<st_vars, rl_vars, parsed, target_wanters, exclude_instances,
                   selected_card, sel_path, norm_in, norm_out, attempt,
                   failed_attempts_set, sends, creates, ret, his_instance_id, find_error,
                   success, response, create_ret, h_pc, h_trades, h_idx, h_inv>>

\* OwnersProcessor.reset_state, called by run_processing_mode when the boost
\* happened
ResetState ==
    /\ fg_pc = "cycle_end"
    /\ fg_op' = "reset_state"
    /\ sent_trades' = clear_sent_trades(sent_trades, locked_cards).sent
    /\ locked_cards' = clear_sent_trades(sent_trades, locked_cards).locked
    /\ failed_attempts_set' = {}
    /\ owner_idx' = 1
    /\ cycle_count' = cycle_count + 1
    /\ card_changed' = FALSE
    /\ fg_pc' = "owners"
    /\ UNCHANGED <<st_vars, rl_vars, h_vars, inventory, parsed, target_wanters,
                   exclude_instances, selected_card, sel_path, norm_in, norm_out,
                   attempt, sends, creates, ret, his_instance_id, find_error, success,
                   response, create_ret, cancel_status, cancel_ret>>

--------------------------------------------------------------------------
(* The remote side and the history monitor thread *)

\* The partner accepts a pending offer.
RemoteComplete ==
    /\ \E k \in DOMAIN offers :
         /\ offers[k].status = "pending"
         /\ offers' = [offers EXCEPT ![k].status = "completed"]
    /\ UNCHANGED <<st_vars, rl_vars, sel_vars, fg_vars, trade_statuses, traded_away_cards,
                   h_pc, h_trades, h_idx, h_inv, completed_polls, removed_for>>

\* The partner rejects a pending offer, or the remote reverses a completed one.
RemoteCancel ==
    /\ \E k \in DOMAIN offers :
         /\ offers[k].status \in {"pending", "completed"}
         /\ offers' = [offers EXCEPT ![k].status = "cancelled"]
    /\ UNCHANGED <<st_vars, rl_vars, sel_vars, fg_vars, trade_statuses, traded_away_cards,
                   h_pc, h_trades, h_idx, h_inv, completed_polls, removed_for>>

\* monitor_loop: one check_and_remove_traded_cards begins, fetch_recent_trades
HistoryFetch ==
    /\ h_pc = "sleep"
    /\ offers # <<>>
    /\ h_trades' = RemoteTrades
    /\ h_idx' = 1
    /\ h_pc' = "loop"
    /\ UNCHANGED <<st_vars, rl_vars, sel_vars, fg_vars, offers, trade_statuses,
                   traded_away_cards, h_inv, completed_polls, removed_for>>

\* The end of one iteration of the loop over the fetched trades
HistoryAdvance ==
    /\ h_idx' = h_idx + 1
    /\ h_pc' = IF h_idx + 1 > Len(h_trades) THEN "sleep" ELSE "loop"

\* check_and_remove_traded_cards: one trade of the loop, up to the point
\* where _remove_card_from_inventory has loaded the inventory
HistoryTrade ==
    /\ h_pc = "loop"
    /\ LET trade == h_trades[h_idx]
           previous_status == trade_statuses[trade.trade_id]
           current_status == trade.status
       IN  IF previous_status = "none" /\ current_status = "completed"
           THEN IF trade.lost_card \notin traded_away_cards
                   /\ first_card_to_remove(inventory, trade.lost_card) # 0
                THEN /\ h_inv' = inventory
                     /\ h_pc' = "save"
                     /\ UNCHANGED <<h_idx, trade_statuses, traded_away_cards>>
                ELSE /\ trade_statuses' =
                          [trade_statuses EXCEPT ![trade.trade_id] = "completed"]
                     /\ HistoryAdvance
                     /\ UNCHANGED <<h_inv, traded_away_cards>>
           ELSE IF previous_status = "completed" /\ current_status = "cancelled"
           THEN /\ traded_away_cards' = traded_away_cards \ {trade.lost_card}
                /\ trade_statuses' =
                          [trade_statuses EXCEPT ![trade.trade_id] = "cancelled"]
                /\ HistoryAdvance
                /\ UNCHANGED h_inv
           ELSE /\ trade_statuses' =
                          [trade_statuses EXCEPT ![trade.trade_id] = current_status]
                /\ HistoryAdvance
                /\ UNCHANGED <<h_inv, traded_away_cards>>
    /\ completed_polls' = observed(completed_polls, h_trades[h_idx])
    /\ UNCHANGED <<st_vars, rl_vars, sel_vars, fg_vars, offers, h_trades, removed_for>>

\* _remove_card_from_inventory: inventory.remove and save_inventory of the
\* list it loaded, then the rest of the iteration
HistorySave ==
    /\ h_pc = "save"
    /\ LET trade == h_trades[h_idx]
       IN  /\ inventory' = h_inv \ {first_card_to_remove(h_inv, trade.lost_card)}
           /\ traded_away_cards' = traded_away_cards \cup {trade.lost_card}
           /\ trade_statuses' =
                  [trade_statuses EXCEPT ![trade.trade_id] = "completed"]
           /\ removed_for' =
                  [removed_for EXCEPT ![trade.trade_id] =
                      Append(@, first_card_to_remove(h_inv, trade.lost_card))]
    /\ HistoryAdvance
    /\ h_inv' = {}
    /\ UNCHANGED <<st_vars, rl_vars, fg_vars, offers, h_trades, parsed, locked_cards,
                   target_wanters, exclude_instances, selected_card, sel_path,
                   norm_in, norm_out, completed_polls>>

--------------------------------------------------------------------------
(* The selector on its own: select_from_parsed and normalize_wanters applied
   to inputs drawn from bounded sets *)

MaxDemand == 9
Demands == 0..MaxDemand \cup {MAX_WANTERS_ALLOWED, MAX_WANTERS_ALLOWED + 1}
TargetChoices == {0, 5, 6, 7, 9}

EmptyCache == [c \in Cards |-> None]

\* The record parse_and_cache_card writes for instance i
CacheRecord(i) ==
    [card_id |-> CardOf(i), rank |-> RankOf[CardOf(i)],
     wanters_count |-> WantersOf[CardOf(i)], instance_id |-> i]

AtMostOne(S) == {{}} \cup {{x} : x \in S}

\* No selection and no normalization has been called.
SelIdle ==
    /\ inventory = {}
    /\ parsed = EmptyCache
    /\ locked_cards = {}
    /\ target_wanters = 0
    /\ exclude_instances = {}
    /\ selected_card = None
    /\ sel_path = "unset"
    /\ norm_in = <<>>
    /\ norm_out = <<>>

InitSelect ==
    /\ inventory = {}
    /\ \E present \in SUBSET Cards :
         parsed = [c \in Cards |-> IF c \in present THEN CacheRecord(c) ELSE None]
    /\ locked_cards \in AtMostOne(Instances)
    /\ exclude_instances \in AtMostOne(Instances)
    /\ target_wanters \in TargetChoices
    /\ selected_card = None
    /\ sel_path = "unset"
    /\ norm_in = <<>>
    /\ norm_out = <<>>
    /\ RLInit({})
    /\ FlowIdle

\* A call of CardSelector.select_from_parsed
CallSelectFromParsed ==
    /\ sel_path = "unset"
    /\ selected_card' \in select_from_parsed(parsed, target_rank, target_wanters,
                                             exclude_instances, locked_cards)
    /\ sel_path' = "parsed"
    /\ UNCHANGED <<inventory, parsed, locked_cards, target_wanters,
                   exclude_instances, norm_in, norm_out>>

SelectNext == CallSelectFromParsed /\ UNCHANGED <<rl_vars, fg_vars, h_vars, st_vars, app>>

SpecSelect == InitSelect /\ [][SelectNext]_vars

\* The files a call of select_best_card may find on disk: inventory.json
\* holds second copies of some card kinds, parsed_inventory.json any entries
\* of earlier calls and earlier runs (sync_inventories keeps the two files
\* disjoint in instance ids).
DiskInventory == {8, 11, 13}
DiskLocks == {6, 13}

InitBest ==
    /\ inventory \in SUBSET DiskInventory
    /\ \E present \in SUBSET Cards :
         parsed = [c \in Cards |-> IF c \in present THEN CacheRecord(c) ELSE None]
    /\ locked_cards \in AtMostOne(DiskLocks)
    /\ exclude_instances \in AtMostOne(DiskLocks)
    /\ target_wanters \in TargetChoices
    /\ selected_card = None
    /\ sel_path = "unset"
    /\ norm_in = <<>>
    /\ norm_out = <<>>
    /\ RLInit({})
    /\ FlowIdle

\* A call of select_trade_card, hence of CardSelector.select_best_card
CallSelectBestCard ==
    /\ sel_path = "unset"
    /\ \E o \in select_trade_card(inventory, parsed, target_rank, target_wanters,
                                  locked_cards, exclude_instances) :
         /\ inventory' = o.inventory
         /\ parsed' = o.parsed
         /\ selected_card' = o.card
         /\ sel_path' = o.path
    /\ UNCHANGED <<locked_cards, target_wanters, exclude_instances, norm_in, norm_out>>

BestNext == CallSelectBestCard /\ UNCHANGED <<rl_vars, fg_vars, h_vars, st_vars, app>>

SpecBest == InitBest /\ [][BestNext]_vars

InitNorm ==
    /\ inventory = {}
    /\ parsed = EmptyCache
    /\ locked_cards = {}
    /\ target_wanters = 0
    /\ exclude_instances = {}
    /\ selected_card = None
    /\ sel_path = "unset"
    /\ norm_in \in Demands \X Demands
    /\ norm_out = <<>>
    /\ RLInit({})
    /\ FlowIdle

\* normalize_wanters applied to two demands
CallNormalize ==
    /\ norm_out = <<>>
    /\ norm_out' = <<normalize_wanters(norm_in[1]), normalize_wanters(norm_in[2])>>
    /\ UNCHANGED <<inventory, parsed, locked_cards, target_wanters,
                   exclude_instances, selected_card, sel_path, norm_in>>

NormNext == CallNormalize /\ UNCHANGED <<rl_vars, fg_vars, h_vars, st_vars, app>>

SpecNorm == InitNorm /\ [][NormNext]_vars

--------------------------------------------------------------------------
(* The rate limiter on its own *)

RLNext ==
    \/ \E th \in Threads : wait_and_record(th) /\ UNCHANGED <<sel_vars, fg_vars, h_vars, st_vars, app>>
    \/ \E th \in Threads : _wait_if_needed(th) /\ UNCHANGED <<sel_vars, fg_vars, h_vars, st_vars, app>>
    \/ \E th \in Threads : record_request(th) /\ UNCHANGED <<sel_vars, fg_vars, h_vars, st_vars, app>>
    \/ \E th \in Threads : pause_for_429(th) /\ UNCHANGED <<sel_vars, fg_vars, h_vars, st_vars, app>>
    \/ \E th \in Threads : get_current_rate(th) /\ UNCHANGED <<sel_vars, fg_vars, h_vars, st_vars, app>>
    \/ Tick /\ UNCHANGED <<sel_vars, fg_vars, h_vars, st_vars, app>>

InitRL1 == RLInit({1}) /\ SelIdle /\ FlowIdle
InitRL2 == RLInit(Threads) /\ SelIdle /\ FlowIdle

SpecRL1 == InitRL1 /\ [][RLNext]_vars
SpecRL2 == InitRL2 /\ [][RLNext]_vars

\* The threads are scheduled fairly: a thread that has called wait_and_record
\* gets self.lock and runs _wait_if_needed, and then record_request.
RLFairness ==
    \A th \in Threads :
        /\ WF_vars(_wait_if_needed(th) /\ UNCHANGED <<sel_vars, fg_vars, h_vars, st_vars, app>>)
        /\ WF_vars(record_request(th) /\ UNCHANGED <<sel_vars, fg_vars, h_vars, st_vars, app>>)

SpecRLFair == InitRL2 /\ [][RLNext]_vars /\ RLFairness

--------------------------------------------------------------------------
(* The daily statistics on their own *)

\* DailyStatsManager.__init__: nothing cached.
InitStats == RLInit({}) /\ SelIdle /\ FlowIdle

StatsNext ==
    \/ CallGetStats /\ UNCHANGED <<rl_vars, sel_vars, fg_vars, h_vars, app>>
    \/ can_donate /\ UNCHANGED <<rl_vars, sel_vars, fg_vars, h_vars, app>>
    \/ can_replace /\ UNCHANGED <<rl_vars, sel_vars, fg_vars, h_vars, app>>
    \/ can_work /\ UNCHANGED <<rl_vars, sel_vars, fg_vars, h_vars, app>>
    \/ refresh_stats /\ UNCHANGED <<rl_vars, sel_vars, fg_vars, h_vars, app>>
    \/ PageChanges /\ UNCHANGED <<rl_vars, sel_vars, fg_vars, h_vars, app>>

SpecStats == InitStats /\ [][StatsNext]_vars

--------------------------------------------------------------------------
(* The trade flow: the foreground thread processing owners and the remote
   side, without and with the history monitor thread *)

FlowInventory == {1, 2, 3, 8}
FlowTargets == {0, 6}

\* The state when run_processing_mode begins; monitor is "sleep" when the
\* history monitor was started (init_history_monitor) and "off" when the run
\* has none.
FlowInitOf(monitor, inv) ==
    /\ RLInit({})
    /\ inventory = inv
    /\ parsed = EmptyCache
    /\ locked_cards = {}
    /\ target_wanters \in FlowTargets
    /\ exclude_instances = {}
    /\ selected_card = None
    /\ sel_path = "unset"
    /\ norm_in = <<>>
    /\ norm_out = <<>>
    /\ fg_pc = "owners"
    /\ card_changed = FALSE
    /\ cycle_count = 1
    /\ fg_op = ""
    /\ owner_idx = 1
    /\ attempt = 0
    /\ failed_attempts_set = {}
    /\ sends = 0
    /\ creates = 0
    /\ ret = <<>>
    /\ his_instance_id = 0
    /\ find_error = "none"
    /\ success = FALSE
    /\ sent_trades = {}
    /\ response = NoResponse
    /\ create_ret = FALSE
    /\ cancel_status = -1
    /\ cancel_ret = FALSE
    /\ offers = <<>>
    /\ trade_statuses = [k \in 1..MaxOffers |-> "none"]
    /\ traded_away_cards = {}
    /\ h_pc = monitor
    /\ h_trades = <<>>
    /\ h_idx = 0
    /\ h_inv = {}
    /\ completed_polls = [k \in 1..MaxOffers |-> 0]
    /\ removed_for = [k \in 1..MaxOffers |-> <<>>]
    /\ StatsIdle

FlowInit(monitor) == FlowInitOf(monitor, FlowInventory)

Init == FlowInit("off") /\ AppIdle

InitMonitor == FlowInit("sleep") /\ AppIdle

Next ==
    \/ NextOwner /\ UNCHANGED app
    \/ StartOwner /\ UNCHANGED app
    \/ SelectCard /\ UNCHANGED app
    \/ SendTrade /\ UNCHANGED app
    \/ CreateTrade /\ UNCHANGED app
    \/ MarkTradeSent /\ UNCHANGED app
    \/ AfterSend /\ UNCHANGED app
    \/ FinishPages /\ UNCHANGED app
    \/ CancelAllSentTrades /\ UNCHANGED app
    \/ ResetState /\ UNCHANGED app
    \/ RemoteComplete /\ UNCHANGED app
    \/ RemoteCancel /\ UNCHANGED app

Spec == Init /\ [][Next]_vars

MonitorNext ==
    \/ Next
    \/ HistoryFetch /\ UNCHANGED app
    \/ HistoryTrade /\ UNCHANGED app
    \/ HistorySave /\ UNCHANGED app

SpecMonitor == InitMonitor /\ [][MonitorNext]_vars

\* The trade flow with BoostMonitor's thread, which may set card_changed at
\* any moment.
ChangeNext ==
    \/ Next
    \/ CardChanged /\ UNCHANGED app

\* The demand of the boost card plays no part in the checks of card_changed:
\* one target is enough here.
InitChange == Init /\ target_wanters = 6

SpecChange == InitChange /\ [][ChangeNext]_vars

--------------------------------------------------------------------------
(* The trade flow with a record of the trade-creation requests of each call
   of process_owner_with_retry *)

\* The request create_trade_direct_api has just sent, if it sent one: the
\* attempt it belongs to, the partner's instance it asks for and the status of
\* the answer.
LoggedCreate ==
    IF response'.status = NoResponse.status
    THEN app.create_log
    ELSE Append(app.create_log, [attempt |-> attempt,
                                 his |-> his_instance_id,
                                 status |-> response'.status])

RetryNext ==
    \/ NextOwner /\ UNCHANGED app
    \/ StartOwner /\ app' = [app EXCEPT !.create_log = <<>>]
    \/ SelectCard /\ UNCHANGED app
    \/ SendTrade /\ UNCHANGED app
    \/ CreateTrade /\ app' = [app EXCEPT !.create_log = LoggedCreate]
    \/ MarkTradeSent /\ UNCHANGED app
    \/ AfterSend /\ UNCHANGED app
    \/ FinishPages /\ UNCHANGED app
    \/ CancelAllSentTrades /\ UNCHANGED app
    \/ ResetState /\ UNCHANGED app
    \/ RemoteComplete /\ UNCHANGED app
    \/ RemoteCancel /\ UNCHANGED app

SpecRetry == InitChange /\ [][RetryNext]_vars

--------------------------------------------------------------------------
(* The trade flow in live mode with the delays of process_owner_with_retry:
   time passes in its sleeps only, every other step takes no time *)

\* config.py, in seconds
MIN_TRADE_DELAY == 11
\* TRADE_RANDOM_DELAY_MIN to TRADE_RANDOM_DELAY_MAX, in whole seconds
TradeRandomDelays == {1, 2}

\* time.time() when the run begins; last_trade_time starts at 0.0, which is
\* more than MIN_TRADE_DELAY before any moment of the run.
RunStart == 20

\* time.time()
time_time == RunStart + now

\* What a sleep leaves unchanged
SleepUnchanged ==
    UNCHANGED <<requests, paused_until, rl_pc, callers, recorded, pause_end,
                early_records, sel_vars, fg_vars, h_vars, st_vars>>

\* OwnersProcessor._wait_before_trade
_wait_before_trade ==
    /\ app.delay_pc = "wait"
    /\ LET time_since_last == time_time - app.last_trade_time
       IN  now' = IF time_since_last < MIN_TRADE_DELAY
                  THEN now + (MIN_TRADE_DELAY - time_since_last)
                  ELSE now
    /\ app' = [app EXCEPT !.delay_pc = "run"]
    /\ SleepUnchanged

\* OwnersProcessor._add_random_delay, after a successful send
_add_random_delay ==
    /\ app.delay_pc = "random"
    /\ \E delay \in TradeRandomDelays : now' = now + delay
    /\ app' = [app EXCEPT !.delay_pc = "run"]
    /\ SleepUnchanged

\* process_owner_with_retry: time.sleep(1) after a failed attempt that is not
\* the last one
PauseAfterFailure ==
    /\ app.delay_pc = "pause"
    /\ now' = now + 1
    /\ app' = [app EXCEPT !.delay_pc = "run"]
    /\ SleepUnchanged

\* process_owner_with_retry after send_trade_func returned: last_trade_time is
\* set on success only, and each branch has its sleep.
AfterSendDelay ==
    app' = IF success
           THEN [app EXCEPT !.last_trade_time = time_time, !.delay_pc = "random"]
           ELSE IF has_next_attempt(attempt)
           THEN [app EXCEPT !.delay_pc = "pause"]
           ELSE app

Awake == app.delay_pc = "run"

DelayNext ==
    \/ Awake /\ NextOwner /\ UNCHANGED app
    \/ Awake /\ StartOwner /\ UNCHANGED app
    \/ Awake /\ SelectCard
             /\ app' = [app EXCEPT !.delay_pc = IF fg_pc' = "send" THEN "wait"
                                                ELSE "run"]
    \/ _wait_before_trade
    \/ Awake /\ SendTrade
             /\ app' = [app EXCEPT !.last_send = IF sends' = sends + 1
                                                 THEN time_time ELSE @]
    \/ CreateTrade /\ UNCHANGED app
    \/ MarkTradeSent /\ UNCHANGED app
    \/ AfterSend /\ AfterSendDelay
    \/ _add_random_delay
    \/ PauseAfterFailure
    \/ Awake /\ FinishPages /\ UNCHANGED app
    \/ Awake /\ CancelAllSentTrades /\ UNCHANGED app
    \/ Awake /\ ResetState /\ app' = [app EXCEPT !.last_trade_time = 0]
    \/ RemoteComplete /\ UNCHANGED app
    \/ RemoteCancel /\ UNCHANGED app

SpecDelay == InitChange /\ [][DelayNext]_vars

--------------------------------------------------------------------------
(* monitor.py: BoostMonitor's thread.  Its TradeManager is its own
   (BoostMonitor.__init__): it never creates a trade, so its sent_trades and
   locked_cards stay empty and are not kept here. *)

\* The remote side of /trades/rejectAll: every pending offer is rejected.
RejectAll(os) ==
    [k \in DOMAIN os |-> IF os[k].status = "pending"
                         THEN [os[k] EXCEPT !.status = "cancelled"]
                         ELSE os[k]]

\* What a step of BoostMonitor's thread leaves unchanged besides the remote
\* offers, card_changed and the daily statistics
MonitorUnchanged ==
    UNCHANGED <<rl_vars, sel_vars, cycle_count, fg_pc, fg_op, owner_idx,
                attempt, failed_attempts_set, sends, creates, ret,
                his_instance_id, find_error, success, sent_trades, response,
                create_ret, cancel_status, cancel_ret, trade_statuses,
                traded_away_cards, h_pc, h_trades, h_idx, h_inv,
                completed_polls, removed_for>>

\* BoostMonitor._cancel_pending_trades: cancel_all_sent_trades with the
\* monitor's TradeManager and no history monitor; the result is only logged.
_cancel_pending_trades(first, next_pc) ==
    /\ \E status \in CancelStatuses :
         offers' = IF cancel_all_result(status) THEN RejectAll(offers)
                   ELSE offers
    /\ app' = [app EXCEPT !.monitor_pc = next_pc,
                          !.monitor_log = IF first THEN <<"rejectAll">>
                                          ELSE Append(@, "rejectAll")]

\* A forced can_donate of the thread, which goes to yes or to no
MonitorCanDonate(yes, no) ==
    /\ can_donate /\ st_force'
    /\ app' = [app EXCEPT !.monitor_pc = IF st_bool' THEN yes ELSE no]
    /\ UNCHANGED <<offers, card_changed>>

\* monitor_loop: check_card_changed_lightweight found another card;
\* handle_card_change_without_boost up to its sleep
HandleCardChange ==
    /\ app.monitor_pc = "idle"
    /\ _cancel_pending_trades(TRUE, "changed")
    /\ UNCHANGED <<st_vars, card_changed>>
    /\ MonitorUnchanged

\* handle_card_change_without_boost after its sleep: get_boost_card_info, and
\* card_changed is set when the card was fetched
HandleCardChangeEnd ==
    /\ app.monitor_pc = "changed"
    /\ \E fetched \in BOOLEAN : card_changed' = (card_changed \/ fetched)
    /\ app' = [app EXCEPT !.monitor_pc = "idle"]
    /\ UNCHANGED <<st_vars, offers>>
    /\ MonitorUnchanged

\* monitor_loop: check_boost_available returned a url, can_donate is asked
BoostAvailable ==
    /\ app.monitor_pc = "idle"
    /\ MonitorCanDonate("contribute", "limit")
    /\ MonitorUnchanged

\* monitor_loop: the limit is reached, print_stats
MonitorPrintStats ==
    /\ app.monitor_pc = "limit"
    /\ StatsCall("print_stats", FALSE)
    /\ app' = [app EXCEPT !.monitor_pc = "idle"]
    /\ UNCHANGED <<st_bool, offers, card_changed>>
    /\ MonitorUnchanged

\* contribute_card up to its first sleep
ContributeCancel ==
    /\ app.monitor_pc = "contribute"
    /\ _cancel_pending_trades(TRUE, "cancelled")
    /\ UNCHANGED <<st_vars, card_changed>>
    /\ MonitorUnchanged

\* contribute_card: the check after the sleep
ContributeCheck ==
    /\ app.monitor_pc = "cancelled"
    /\ MonitorCanDonate("card", "idle")
    /\ MonitorUnchanged

\* contribute_card: get_boost_card_info, then the second check
ContributeRecheck ==
    /\ app.monitor_pc = "card"
    /\ \E fetched \in BOOLEAN :
         IF fetched
         THEN MonitorCanDonate("send", "idle")
         ELSE /\ app' = [app EXCEPT !.monitor_pc = "idle"]
              /\ UNCHANGED <<st_vars, offers, card_changed>>
    /\ MonitorUnchanged

\* BoostMonitor._send_contribute_request, True iff the answer is 200
ContributeSend ==
    /\ app.monitor_pc = "send"
    /\ \E status \in CancelStatuses :
         app' = [app EXCEPT !.monitor_pc = IF status = 200 THEN "sent" ELSE "idle",
                            !.monitor_log = Append(@, "boost")]
    /\ UNCHANGED <<st_vars, offers, card_changed>>
    /\ MonitorUnchanged

\* contribute_card after the request: the new boost card is fetched; when it
\* is another card the trades are cancelled once more and card_changed is set
ContributeNewCard ==
    /\ app.monitor_pc = "sent"
    /\ \E new_card \in {"none", "same", "other"} :
         IF new_card = "other"
         THEN /\ _cancel_pending_trades(FALSE, "refresh")
              /\ card_changed' = TRUE
         ELSE /\ app' = [app EXCEPT !.monitor_pc = IF new_card = "none"
                                                   THEN "failed" ELSE "refresh"]
              /\ UNCHANGED <<offers, card_changed>>
    /\ UNCHANGED st_vars
    /\ MonitorUnchanged

\* contribute_card: refresh_stats; it returns True when the new card was
\* fetched, and monitor_loop then sets card_changed
ContributeEnd ==
    /\ app.monitor_pc \in {"refresh", "failed"}
    /\ refresh_stats
    /\ card_changed' = (card_changed \/ app.monitor_pc = "refresh")
    /\ app' = [app EXCEPT !.monitor_pc = "idle"]
    /\ UNCHANGED offers
    /\ MonitorUnchanged

BoostMonitorNext ==
    \/ HandleCardChange
    \/ HandleCardChangeEnd
    \/ BoostAvailable
    \/ MonitorPrintStats
    \/ ContributeCancel
    \/ ContributeCheck
    \/ ContributeRecheck
    \/ ContributeSend
    \/ ContributeNewCard
    \/ ContributeEnd

\* The pages the club serves while the flows run: a donation or a replacement
\* away from the daily limit, or at it
QuotaPages ==
    [status : {200}, donations : {<<49, 50>>, <<50, 50>>},
     replacements : {<<0, 10>>, <<10, 10>>}]

\* The club page changes under the flows: a donation or a replacement is
\* used, or the day ends
QuotaPageChanges ==
    /\ \E p \in QuotaPages \ {page} : page' = p
    /\ UNCHANGED <<_cached_stats, st_op, st_force, st_page, st_before,
                   st_stats, st_bool>>
    /\ UNCHANGED <<rl_vars, sel_vars, fg_vars, h_vars, app>>

\* The trade flow beside BoostMonitor's thread
BoostFlowInventory == {2}

InitBoost ==
    /\ FlowInitOf("off", BoostFlowInventory)
    /\ target_wanters = 6
    /\ app = [AppStart EXCEPT !.monitor_pc = "idle"]

\* The next step of BoostMonitor's thread may call DailyStatsManager.  The
\* club page is read by these calls only: what the page does before one of
\* them is taken when the thread is about to make it.
MonitorAboutToReadPage ==
    app.monitor_pc \in {"idle", "limit", "cancelled", "card", "refresh",
                        "failed"}

BoostNext ==
    \/ NextOwner /\ UNCHANGED app
    \/ StartOwner /\ UNCHANGED app
    \/ SelectCard /\ UNCHANGED app
    \/ SendTrade /\ UNCHANGED app
    \/ CreateTrade /\ UNCHANGED app
    \/ MarkTradeSent /\ UNCHANGED app
    \/ AfterSend /\ UNCHANGED app
    \/ FinishPages /\ UNCHANGED app
    \/ CancelAllSentTrades /\ UNCHANGED app
    \/ ResetState /\ UNCHANGED app
    \/ RemoteComplete /\ UNCHANGED app
    \/ RemoteCancel /\ UNCHANGED app
    \/ BoostMonitorNext
    \/ MonitorAboutToReadPage /\ QuotaPageChanges

SpecBoost == InitBoost /\ [][BoostNext]_vars

--------------------------------------------------------------------------
(* card_replacement.py: force_replace_card and perform_replacement, which
   differ in perform_replacement's should_replace_card only *)

ReplacementFlows == {"force_replace_card", "perform_replacement"}

\* The order of a replacement flow: the position that follows pc, where ok is
\* the result of the call made at pc; "r_return" is its return
replacement_step_cancel_last(pc, ok) ==
    CASE pc = "r_check" -> IF ok THEN "r_left" ELSE "r_limit"
      [] pc = "r_left" -> "r_recheck"
      [] pc = "r_recheck" -> IF ok THEN "r_replace" ELSE "r_return"
      [] pc = "r_replace" -> IF ok THEN "r_cancel" ELSE "r_return"
      [] pc = "r_cancel" -> "r_refresh"
      [] pc = "r_refresh" -> "r_newcard"
      [] OTHER -> "r_return"

replacement_step(pc, ok) ==
    CASE pc = "r_check" -> IF ok THEN "r_left" ELSE "r_limit"
      [] pc = "r_left" -> "r_cancel"
      [] pc = "r_cancel" -> "r_recheck"
      [] pc = "r_recheck" -> IF ok THEN "r_replace" ELSE "r_return"
      [] pc = "r_replace" -> IF ok THEN "r_refresh" ELSE "r_return"
      [] pc = "r_refresh" -> "r_newcard"
      [] OTHER -> "r_return"

\* The main thread moves on from pc
ReplaceGoto(pc, ok) ==
    IF replacement_step(pc, ok) = "r_return" THEN app.main_ret
    ELSE replacement_step(pc, ok)

\* What a step of a replacement flow leaves unchanged besides the remote
\* offers and the daily statistics
ReplaceUnchanged == UNCHANGED card_changed /\ MonitorUnchanged

\* The flow is entered and will return to back: should_replace_card
\* (perform_replacement only), then CardReplacementManager.can_replace
EnterReplacement(flow, back) ==
    /\ \E should \in BOOLEAN :
         IF flow = "perform_replacement" /\ ~should
         THEN /\ app' = [app EXCEPT !.main_flow = flow, !.main_log = <<>>,
                                    !.main_ret = back, !.main_pc = back,
                                    !.main_result = FALSE]
              /\ UNCHANGED st_vars
         ELSE /\ can_replace /\ st_force'
              /\ app' = [app EXCEPT !.main_flow = flow, !.main_log = <<>>,
                                    !.main_ret = back,
                                    !.main_result = FALSE,
                                    !.main_pc = IF replacement_step("r_check", st_bool')
                                                     = "r_return"
                                                THEN back
                                                ELSE replacement_step("r_check", st_bool')]
    /\ UNCHANGED offers
    /\ ReplaceUnchanged

\* CardReplacementManager.can_replace: the limit is reached, print_stats
ReplaceLimit ==
    /\ app.main_pc = "r_limit"
    /\ StatsCall("print_stats", FALSE)
    /\ app' = [app EXCEPT !.main_pc = ReplaceGoto("r_limit", TRUE)]
    /\ UNCHANGED <<st_bool, offers>>
    /\ ReplaceUnchanged

\* get_replacements_left(force_refresh=True)
ReplaceLeft ==
    /\ app.main_pc = "r_left"
    /\ StatsCall("get_replacements_left", TRUE)
    /\ app' = [app EXCEPT !.main_pc = ReplaceGoto("r_left", TRUE)]
    /\ UNCHANGED <<st_bool, offers>>
    /\ ReplaceUnchanged

\* cancel_all_sent_trades(self.session, debug=False): a TradeManager made for
\* the call, no history monitor, the result dropped
ReplaceCancel ==
    /\ app.main_pc = "r_cancel"
    /\ \E status \in CancelStatuses :
         offers' = IF cancel_all_result(status) THEN RejectAll(offers)
                   ELSE offers
    /\ app' = [app EXCEPT !.main_pc = ReplaceGoto("r_cancel", TRUE),
                          !.main_log = Append(@, "rejectAll")]
    /\ UNCHANGED st_vars
    /\ ReplaceUnchanged

\* The check before the request
ReplaceRecheck ==
    /\ app.main_pc = "r_recheck"
    /\ can_replace /\ st_force'
    /\ app' = [app EXCEPT !.main_pc = ReplaceGoto("r_recheck", st_bool')]
    /\ UNCHANGED offers
    /\ ReplaceUnchanged

\* replace_club_card, True iff the answer is 200
ReplaceSend ==
    /\ app.main_pc = "r_replace"
    /\ \E status \in CancelStatuses :
         app' = [app EXCEPT !.main_pc = ReplaceGoto("r_replace", status = 200),
                            !.main_log = Append(@, "replace")]
    /\ UNCHANGED <<st_vars, offers>>
    /\ ReplaceUnchanged

\* refresh_stats after the replacement
ReplaceRefresh ==
    /\ app.main_pc = "r_refresh"
    /\ refresh_stats
    /\ app' = [app EXCEPT !.main_pc = ReplaceGoto("r_refresh", TRUE)]
    /\ UNCHANGED offers
    /\ ReplaceUnchanged

\* get_boost_card_info, and print_stats(force_refresh=True) when the card was
\* fetched; the flow returns the card when it is another one
ReplaceNewCard ==
    /\ app.main_pc = "r_newcard"
    /\ \E new_card \in {"none", "same", "other"} :
         /\ IF new_card = "none"
            THEN UNCHANGED st_vars
            ELSE StatsCall("print_stats", TRUE) /\ UNCHANGED st_bool
         /\ app' = [app EXCEPT !.main_pc = ReplaceGoto("r_newcard", TRUE),
                               !.main_result = (new_card = "other")]
    /\ UNCHANGED offers
    /\ ReplaceUnchanged

ReplacementNext ==
    \/ ReplaceLimit
    \/ ReplaceLeft
    \/ ReplaceCancel
    \/ ReplaceRecheck
    \/ ReplaceSend
    \/ ReplaceRefresh
    \/ ReplaceNewCard

\* A caller enters one of the two flows
CallReplacement ==
    /\ app.main_pc = "idle"
    /\ \E flow \in ReplacementFlows : EnterReplacement(flow, "idle")

\* The contribute flow in BoostMonitor's thread and the replacement flows in
\* the main thread, with no trade under way
InitFlows ==
    /\ FlowInitOf("off", {})
    /\ target_wanters = 6
    /\ app = [AppStart EXCEPT !.monitor_pc = "idle"]

FlowsNext ==
    \/ BoostMonitorNext
    \/ CallReplacement
    \/ ReplacementNext
    \/ QuotaPageChanges

SpecFlows == InitFlows /\ [][FlowsNext]_vars

--------------------------------------------------------------------------
(* The three callers of cancel_all_sent_trades beside a running history
   monitor: the foreground loop, BoostMonitor's thread and the replacement
   flows *)

InitReconcile ==
    /\ FlowInitOf("sleep", BoostFlowInventory)
    /\ target_wanters = 6
    /\ app = [AppStart EXCEPT !.monitor_pc = "idle"]

\* The trade flow, the history monitor's polls, BoostMonitor's handling of a
\* changed card and the replacement flow. The club page stays as it is at the
\* start, with replacements left, and the partners answer no offer.
ReconcileNext ==
    \/ NextOwner /\ UNCHANGED app
    \/ StartOwner /\ UNCHANGED app
    \/ SelectCard /\ UNCHANGED app
    \/ SendTrade /\ UNCHANGED app
    \/ CreateTrade /\ UNCHANGED app
    \/ MarkTradeSent /\ UNCHANGED app
    \/ AfterSend /\ UNCHANGED app
    \/ FinishPages /\ UNCHANGED app
    \/ CancelAllSentTrades /\ UNCHANGED app
    \/ ResetState /\ UNCHANGED app
    \/ HistoryFetch /\ UNCHANGED app
    \/ HistoryTrade /\ UNCHANGED app
    \/ HandleCardChange
    \/ HandleCardChangeEnd
    \/ CallReplacement
    \/ ReplaceLeft
    \/ ReplaceCancel
    \/ ReplaceRecheck
    \/ ReplaceSend
    \/ ReplaceRefresh
    \/ ReplaceNewCard

SpecReconcile == InitReconcile /\ [][ReconcileNext]_vars

--------------------------------------------------------------------------
(* main.py: the loop of run_processing_mode with enter_wait_mode, around the
   trade flow.  A Telegram command may have set replace_requested, the card
   may need a replacement and failed_cycles_count may have reached
   MAX_FAILED_CYCLES wherever the loop asks; every page of owners has
   owners, and the partners leave the offers pending. *)

\* Where the loop goes after a forced can_donate at pc that reported every
\* donation used
after_quota_check_recheck_ignored(pc, ok) ==
    CASE pc = "top" -> IF ok THEN "pre1" ELSE "wait_cancel"
      [] pc = "recheck" -> "post"
      [] OTHER -> IF ok THEN "wait_leave" ELSE "wait_poll"

\* Where the loop goes after the forced can_donate at pc: "top" and "recheck"
\* are the two checks of run_processing_mode, "wait" is enter_wait_mode's
after_quota_check(pc, ok) ==
    CASE pc = "top" -> IF ok THEN "pre1" ELSE "wait_cancel"
      [] pc = "recheck" -> IF ok THEN "post" ELSE "wait_cancel"
      [] OTHER -> IF ok THEN "wait_leave" ELSE "wait_poll"

\* The positions of enter_wait_mode
WaitPositions == {"wait_cancel", "wait_stats", "wait", "wait_poll", "wait_cmd",
                  "wait_leave"}

\* The main thread goes to pc; at "top" an iteration of the loop begins, and
\* there and at "process" nothing of the replacements it called is kept
MainGoto(pc) ==
    IF pc \in {"top", "process"}
    THEN [app EXCEPT !.main_pc = pc,
                     !.main_quota = IF pc = "top" THEN "none" ELSE @,
                     !.main_ret = "idle", !.main_flow = "", !.main_log = <<>>,
                     !.main_result = FALSE]
    ELSE [app EXCEPT !.main_pc = pc]

\* What a step of the main thread outside the trade flow leaves unchanged
\* when it changes neither the processor nor the remote offers
MainUnchanged == UNCHANGED offers /\ ReplaceUnchanged

\* The first check of an iteration
MainCheck ==
    /\ app.main_pc = "top"
    /\ cycle_count <= MaxCycles
    /\ can_donate /\ st_force'
    /\ app' = [app EXCEPT !.main_pc = after_quota_check("top", st_bool'),
                          !.main_quota = IF st_bool' THEN "yes" ELSE "no"]
    /\ MainUnchanged

\* A branch of the loop that may call a replacement: taken, the main thread
\* goes to entry and the replacement returns to back; not taken, it goes on
\* at next
ReplacementBranch(pc, entry, back, next) ==
    /\ app.main_pc = pc
    /\ \E taken \in BOOLEAN :
         app' = IF taken
                THEN [app EXCEPT !.main_pc = entry, !.main_ret = back,
                                 !.main_result = FALSE]
                ELSE MainGoto(next)
    /\ UNCHANGED st_vars
    /\ MainUnchanged

\* OwnersProcessor.reset_state
reset_state ==
    /\ sent_trades' = clear_sent_trades(sent_trades, locked_cards).sent
    /\ locked_cards' = clear_sent_trades(sent_trades, locked_cards).locked
    /\ failed_attempts_set' = {}

\* After a replacement called by the loop: with a new card reset_state and the
\* next position is restart, without one the loop goes on at next
ReplacementReturn(pc, restart, next) ==
    /\ app.main_pc = pc
    /\ IF app.main_result
       THEN /\ reset_state
            /\ app' = [MainGoto(restart) EXCEPT !.last_trade_time = 0]
       ELSE /\ app' = MainGoto(next)
            /\ UNCHANGED <<sent_trades, locked_cards, failed_attempts_set>>
    /\ UNCHANGED <<st_vars, rl_vars, h_vars, inventory, parsed, target_wanters,
                   exclude_instances, selected_card, sel_path, norm_in, norm_out,
                   cycle_count, card_changed, fg_pc, fg_op, owner_idx, attempt,
                   sends, creates, ret, his_instance_id, find_error, success,
                   response, create_ret, cancel_status, cancel_ret>>

\* attempt_auto_replacement: can_replace, then force_replace_card
AttemptCheck ==
    /\ app.main_pc = "a_check"
    /\ can_replace /\ st_force'
    /\ app' = MainGoto(IF st_bool' THEN "a_enter" ELSE "a_limit")
    /\ MainUnchanged

\* The limit of replacements is reached: print_stats, and no replacement is
\* called
AttemptLimit ==
    /\ app.main_pc = "a_limit"
    /\ StatsCall("print_stats", FALSE)
    /\ app' = MainGoto(app.main_ret)
    /\ UNCHANGED st_bool
    /\ MainUnchanged

AttemptEnter ==
    /\ app.main_pc = "a_enter"
    /\ EnterReplacement("force_replace_card", app.main_ret)

\* needs_replacement: can_replace, then check_and_replace_if_needed
NeedsCheck ==
    /\ app.main_pc = "n_check"
    /\ can_replace /\ st_force'
    /\ app' = MainGoto(IF st_bool' THEN "n_enter" ELSE "a_limit")
    /\ MainUnchanged

NeedsEnter ==
    /\ app.main_pc = "n_enter"
    /\ EnterReplacement("perform_replacement", app.main_ret)

\* monitor.card_changed = False, get_current_rate and the second check of the
\* iteration
MainRecheck ==
    /\ app.main_pc = "recheck"
    /\ card_changed' = FALSE
    /\ requests' = _cleanup_old_requests(requests, now)
    /\ can_donate /\ st_force'
    /\ app' = [app EXCEPT !.main_pc = after_quota_check("recheck", st_bool'),
                          !.main_quota = IF st_bool' /\ @ # "no" THEN "yes"
                                         ELSE "no"]
    /\ UNCHANGED <<now, paused_until, rl_pc, callers, recorded, pause_end,
                   early_records, sel_vars, h_vars, cycle_count, fg_pc, fg_op,
                   owner_idx, attempt, failed_attempts_set, sends, creates, ret,
                   his_instance_id, find_error, success, sent_trades, response,
                   create_ret, cancel_status, cancel_ret>>

\* cancel_all_sent_trades with the processor's TradeManager and the history
\* monitor, called by the loop outside the end of a cycle
MainCancel(pc, next) ==
    /\ app.main_pc = pc
    /\ fg_op' = "cancel_all"
    /\ \E status \in CancelStatuses :
         /\ cancel_status' = status
         /\ cancel_ret' = cancel_all_result(status)
         /\ IF cancel_all_result(status)
            THEN LET cleared == clear_sent_trades(sent_trades, locked_cards)
                     rejected == RejectAll(offers)
                     trades == [k \in DOMAIN rejected |->
                                  [trade_id |-> k, status |-> rejected[k].status,
                                   lost_card |-> rejected[k].card]]
                     checked ==
                         IF h_pc = "off"
                         THEN [statuses |-> trade_statuses,
                               away |-> traded_away_cards,
                               inventory |-> inventory,
                               polls |-> completed_polls,
                               removed |-> removed_for]
                         ELSE check_and_remove_traded_cards(
                                    trades, 1, trade_statuses, traded_away_cards,
                                    inventory, completed_polls, removed_for)
                 IN  /\ sent_trades' = cleared.sent
                     /\ locked_cards' = cleared.locked
                     /\ offers' = rejected
                     /\ trade_statuses' = checked.statuses
                     /\ traded_away_cards' = checked.away
                     /\ inventory' = checked.inventory
                     /\ completed_polls' = checked.polls
                     /\ removed_for' = checked.removed
            ELSE UNCHANGED <<sent_trades, locked_cards, offers, trade_statuses,
                             traded_away_cards, inventory, completed_polls,
                             removed_for>>
    /\ app' = MainGoto(next)
    /\ UNCHANGED <<st_vars, rl_vars, parsed, target_wanters, exclude_instances,
                   selected_card, sel_path, norm_in, norm_out, cycle_count,
                   card_changed, fg_pc, owner_idx, attempt, failed_attempts_set,
                   sends, creates, ret, his_instance_id, find_error, success,
                   response, create_ret, h_pc, h_trades, h_idx, h_inv>>

\* The main thread is at the end of a cycle, about to reset the processor
\* or to cancel the trades and begin the next iteration
AtCycleEnd ==
    \/ app.main_pc = "ending"
    \/ app.main_pc = "end_ret" /\ app.main_result

\* enter_wait_mode: print_stats(force_refresh=True)
WaitPrintStats ==
    /\ app.main_pc = "wait_stats"
    /\ StatsCall("print_stats", TRUE)
    /\ app' = MainGoto("wait")
    /\ UNCHANGED st_bool
    /\ MainUnchanged

\* enter_wait_mode: the check of its loop
WaitCheck ==
    /\ app.main_pc = "wait"
    /\ can_donate /\ st_force'
    /\ app' = MainGoto(after_quota_check("wait", st_bool'))
    /\ MainUnchanged

\* enter_wait_mode returns: print_stats, and run_processing_mode continues
WaitLeave ==
    /\ app.main_pc = "wait_leave"
    /\ StatsCall("print_stats", FALSE)
    /\ app' = MainGoto("top")
    /\ UNCHANGED st_bool
    /\ MainUnchanged

\* enter_wait_mode: the statistics when they are due, and card_changed is
\* taken note of
WaitPoll ==
    /\ app.main_pc = "wait_poll"
    /\ \E due \in BOOLEAN :
         IF due THEN StatsCall("print_stats", FALSE) /\ UNCHANGED st_bool
         ELSE UNCHANGED st_vars
    /\ card_changed' = FALSE
    /\ app' = MainGoto("wait_cmd")
    /\ UNCHANGED offers
    /\ MonitorUnchanged

\* The loop of run_processing_mode and enter_wait_mode, in the order of the
\* code.  replace_requested is asked before the rate is read (a new card
\* restarts the iteration), then failed_cycles_count >= MAX_FAILED_CYCLES
\* (the same), then needs_replacement, after which the iteration goes on with
\* or without a new card; after the second check and after
\* process_owners_page_by_page replace_requested is asked again, and there
\* cancel-all comes before attempt_auto_replacement.  enter_wait_mode begins
\* with cancel-all; a replacement ordered in it returns into its loop.
MainLoopNext ==
    \/ MainCheck
    \/ ReplacementBranch("pre1", "a_check", "pre1_ret", "pre2")
    \/ ReplacementReturn("pre1_ret", "top", "pre2")
    \/ ReplacementBranch("pre2", "a_check", "pre2_ret", "pre3")
    \/ ReplacementReturn("pre2_ret", "top", "pre3")
    \/ ReplacementBranch("pre3", "n_check", "pre3_ret", "recheck")
    \/ ReplacementReturn("pre3_ret", "recheck", "recheck")
    \/ AttemptCheck
    \/ AttemptLimit
    \/ AttemptEnter
    \/ NeedsCheck
    \/ NeedsEnter
    \/ MainRecheck
    \/ ReplacementBranch("post", "post_cancel", "post_ret", "process")
    \/ MainCancel("post_cancel", "a_check")
    \/ ReplacementReturn("post_ret", "top", "process")
    \/ fg_pc = "cycle_end"
           /\ ReplacementBranch("process", "end_cancel", "end_ret", "ending")
    \/ MainCancel("end_cancel", "a_check")
    \/ ~app.main_result /\ ReplacementReturn("end_ret", "top", "ending")
    \/ MainCancel("wait_cancel", "wait_stats")
    \/ WaitPrintStats
    \/ WaitCheck
    \/ WaitLeave
    \/ WaitPoll
    \/ ReplacementBranch("wait_cmd", "a_check", "wait", "wait")

\* process_owners_page_by_page is running
Processing == app.main_pc = "process"

AppInventory == {2}

InitApp ==
    /\ FlowInitOf("off", AppInventory)
    /\ target_wanters = 6
    /\ app = [AppStart EXCEPT !.main_pc = "top"]

\* The main thread's next step calls DailyStatsManager.  The club page is read
\* by these calls only: what the page does before one of them is taken when
\* the main thread is about to make it.
AboutToReadPage ==
    app.main_pc \in {"top", "recheck", "wait_stats", "wait", "wait_leave",
                     "wait_poll", "a_check", "a_limit", "a_enter", "n_check",
                     "n_enter", "r_limit", "r_left", "r_recheck", "r_refresh",
                     "r_newcard"}

\* card_changed is read by process_owners_page_by_page only, and the loop
\* clears it before: BoostMonitor's thread setting it is taken while
\* process_owners_page_by_page runs.
AppNext ==
    \/ MainLoopNext
    \/ ReplacementNext
    \/ Processing /\ NextOwner /\ UNCHANGED app
    \/ Processing /\ StartOwner /\ UNCHANGED app
    \/ Processing /\ SelectCard /\ UNCHANGED app
    \/ Processing /\ SendTrade /\ UNCHANGED app
    \/ Processing /\ CreateTrade /\ UNCHANGED app
    \/ Processing /\ MarkTradeSent /\ UNCHANGED app
    \/ Processing /\ AfterSend /\ UNCHANGED app
    \/ Processing /\ FinishPages /\ UNCHANGED app
    \/ (Processing \/ AtCycleEnd) /\ CancelAllSentTrades /\ app' = MainGoto("top")
    \/ (Processing \/ AtCycleEnd) /\ ResetState
           /\ app' = [MainGoto("top") EXCEPT !.last_trade_time = 0]
    \/ Processing /\ CardChanged /\ UNCHANGED app
    \/ AboutToReadPage /\ QuotaPageChanges

SpecApp == InitApp /\ [][AppNext]_vars

--------------------------------------------------------------------------
(* Claims on the selector *)

\* A cached record that select_from_parsed may consider: target rank, not
\* excluded, not locked, within the demand ceiling.
IsEligible(c) ==
    /\ c # None
    /\ c.rank = target_rank
    /\ c.instance_id \notin exclude_instances
    /\ c.instance_id \notin locked_cards
    /\ c.wanters_count <= MAX_WANTERS_ALLOWED

Norm(d) == IF d <= 5 THEN 0 ELSE d

Qualifies(c) == IsEligible(c) /\ Norm(c.wanters_count) >= Norm(target_wanters)

\* C8: whenever the parsed cache holds an eligible item whose normalized
\* demand reaches the normalized target, select_from_parsed returns such an
\* item, never one whose normalized demand is below the normalized target.
C8_PrefersQualifying ==
    (sel_path = "parsed" /\ \E c \in Cards : Qualifies(parsed[c]))
        => /\ selected_card \in {parsed[c] : c \in Cards}
           /\ Qualifies(selected_card)

\* C8 witness: a call made with both a qualifying and a lower eligible item
\* in the cache.
C8_Witness ==
    /\ sel_path = "parsed"
    /\ \E c \in Cards : Qualifies(parsed[c])
    /\ \E c \in Cards : IsEligible(parsed[c]) /\ ~Qualifies(parsed[c])
    /\ Norm(target_wanters) > 0

\* C9: normalize_wanters(d) is 0 for every d <= LOW_WANTERS_THRESHOLD (two
\* such demands normalize to the same value) and d for every d above it.
C9_Normalize ==
    norm_out # <<>> =>
        /\ \A k \in 1..2 :
              /\ norm_in[k] <= 5 => norm_out[k] = 0
              /\ norm_in[k] > 5 => norm_out[k] = norm_in[k]
        /\ (norm_in[1] <= 5 /\ norm_in[2] <= 5) => norm_out[1] = norm_out[2]

\* C9 witness: the threshold itself and a demand above it were normalized.
C9_Witness ==
    /\ norm_out # <<>>
    /\ norm_in[1] = 5
    /\ norm_in[2] > 5

\* The scenario of C10: target demand 0, the cache holds exactly the target
\* rank items with demands 0, 1, 3, 6 and 8, all available.
ScenarioC10 ==
    /\ target_wanters = 0
    /\ {c \in Cards : parsed[c] # None} = 1..5
    /\ [c \in 1..5 |-> parsed[c].wanters_count] = <<0, 1, 3, 6, 8>>
    /\ \A c \in 1..5 : parsed[c].rank = target_rank
    /\ locked_cards = {}
    /\ exclude_instances = {}

\* C10 as stated: in the scenario the normalized demands are 0, 0, 0, 1, 3
\* and the selection returns one of the items with demand 0, 1 or 3.
C10_Original ==
    (ScenarioC10 /\ sel_path = "parsed")
        => /\ [c \in 1..5 |-> normalize_wanters(parsed[c].wanters_count)]
                = <<0, 0, 0, 1, 3>>
           /\ selected_card # None
           /\ selected_card.wanters_count \in {0, 1, 3}

\* C10 amended: in the scenario the normalized demands are 0, 0, 0, 6, 8,
\* every one of the five items reaches the normalized target 0, and the
\* selection returns one of the five items.
C10_Scenario ==
    (ScenarioC10 /\ sel_path = "parsed")
        => /\ [c \in 1..5 |-> normalize_wanters(parsed[c].wanters_count)]
                = <<0, 0, 0, 6, 8>>
           /\ selected_card \in {parsed[c] : c \in 1..5}
           /\ selected_card.wanters_count \in {0, 1, 3, 6, 8}

\* C10 witness: in the scenario the item with demand 8 was returned.
C10_Witness ==
    /\ ScenarioC10
    /\ sel_path = "parsed"
    /\ selected_card # None
    /\ selected_card.wanters_count = 8

\* C29: when no eligible item of the cache reaches the normalized target,
\* select_from_parsed returns an eligible item of maximal normalized demand;
\* it returns None only when the cache holds no eligible item.
C29_ClosestBelow ==
    sel_path = "parsed" =>
        /\ (\A c \in Cards : ~Qualifies(parsed[c])) =>
              IF \E c \in Cards : IsEligible(parsed[c])
              THEN /\ selected_card \in {parsed[c] : c \in Cards}
                   /\ IsEligible(selected_card)
                   /\ \A c \in Cards :
                        IsEligible(parsed[c]) =>
                            Norm(parsed[c].wanters_count)
                                <= Norm(selected_card.wanters_count)
              ELSE selected_card = None
        /\ selected_card = None => \A c \in Cards : ~IsEligible(parsed[c])

\* C29 witness: no item qualifies, the eligible items have several normalized
\* demands below the target, and an item was returned.
C29_Witness ==
    /\ sel_path = "parsed"
    /\ \A c \in Cards : ~Qualifies(parsed[c])
    /\ \E c, d \in Cards :
         /\ IsEligible(parsed[c]) /\ IsEligible(parsed[d])
         /\ Norm(parsed[c].wanters_count) < Norm(parsed[d].wanters_count)
         /\ Norm(parsed[c].wanters_count) > 0
    /\ selected_card # None

--------------------------------------------------------------------------
(* Claims on the trade flow *)

\* C3: one call of process_owner_with_retry makes at most MAX_RETRY_ATTEMPTS
\* (3) calls of send_trade_func, hence at most that many trade creations.
C3_AtMostMaxRetryAttempts ==
    /\ MAX_RETRY_ATTEMPTS = 3
    /\ sends <= MAX_RETRY_ATTEMPTS
    /\ creates <= sends

\* Three creations were tried for one owner, all failed, and the call
\* returned (False, False).
C3_Witness ==
    /\ sends = 3
    /\ creates = 3
    /\ ret = <<FALSE, FALSE>>

\* C4: create_trade_direct_api adds my_instance_id to locked_cards exactly
\* when it returns True; when it returns False (429, 422, an unsuccessful
\* response, a network error, the card already locked) locked_cards is as
\* it was.
C4_LockOnlyOnTrue ==
    [][fg_pc = "create" /\ fg_pc' = "created" =>
        /\ IF create_ret'
           THEN locked_cards' = locked_cards \cup {selected_card.instance_id}
           ELSE locked_cards' = locked_cards
        /\ response'.status \in {0, 422, 429} => ~create_ret'
        /\ ~_is_success_response(response') => ~create_ret'
        /\ selected_card.instance_id \in locked_cards => ~create_ret'
        /\ create_ret' => selected_card.instance_id \in locked_cards']_vars

\* A creation answered 422 returned False while another card was locked by
\* an earlier creation that returned True.
C4_Witness ==
    /\ fg_pc = "created"
    /\ ~create_ret
    /\ response.status = 422
    /\ locked_cards # {}
    /\ selected_card.instance_id \notin locked_cards

\* C5: cancel_all_sent_trades returns True, with locked_cards and
\* sent_trades empty, exactly when the cancel-all request was answered 200;
\* otherwise it returns False and both sets are as they were.
C5_CancelAllClearsOn200 ==
    [][fg_pc = "cycle_end" /\ fg_op' = "cancel_all" =>
        /\ cancel_ret' <=> cancel_status' = 200
        /\ cancel_ret' => locked_cards' = {} /\ sent_trades' = {}
        /\ ~cancel_ret' => locked_cards' = locked_cards /\ sent_trades' = sent_trades]_vars

\* cancel_all_sent_trades returned True after a trade had been created (and
\* had locked a card): both sets are empty.
C5_Witness ==
    /\ fg_op = "cancel_all"
    /\ cancel_ret
    /\ offers # <<>>
    /\ locked_cards = {}
    /\ sent_trades = {}

\* C6: the card select_best_card returns is never an instance of
\* exclude_instances, whether it comes from the unparsed or the parsed path.
C6_NeverExcluded ==
    fg_pc = "send" => selected_card.instance_id \notin exclude_instances

\* C7: the card select_trade_card returns is never an instance of
\* locked_cards.
C7_NeverLocked ==
    fg_pc = "send" => selected_card.instance_id \notin locked_cards

\* A card was selected while the parsed cache held a locked card of the
\* wanted rank that is not excluded.
C7_Witness ==
    /\ fg_pc = "send"
    /\ \E c \in Cards :
         /\ parsed[c] # None
         /\ parsed[c].instance_id \in locked_cards
         /\ parsed[c].instance_id \notin exclude_instances
         /\ parsed[c].rank = target_rank

\* C19: a step of process_owner_with_retry that finds card_changed set at
\* one of its checks (on entry, at the start of an attempt, just before
\* sending) returns (False, True), sends no trade, adds nothing to the failed
\* set, and process_page_by_page returns without another owner.  On entry the
\* blacklist test comes first and returns (False, False) without reaching
\* the check; that return sends and adds nothing either.
C19_AbortOnCardChanged ==
    [][(card_changed /\ fg_pc \in {"entry", "select", "send"} /\ fg_pc' # fg_pc)
       => /\ \/ ret' = <<FALSE, TRUE>> /\ fg_pc' = "cycle_end"
             \/ fg_pc = "entry" /\ ret' = <<FALSE, FALSE>> /\ fg_pc' = "owners"
          /\ sends' <= sends /\ creates' <= creates
          /\ offers' = offers /\ sent_trades' = sent_trades
          /\ locked_cards' = locked_cards
          /\ failed_attempts_set' = failed_attempts_set]_vars

\* card_changed was found set in the second attempt for an owner, after one
\* failed proposal: the call returned (False, True) and the page was left.
C19_Witness ==
    /\ ret = <<FALSE, TRUE>> /\ fg_pc = "cycle_end" /\ card_changed
    /\ sends = 1 /\ failed_attempts_set # {}

\* The steps in which an operation of TradeManager met a network error
NetworkErrorStep ==
    \/ fg_pc = "send" /\ find_error' # "none"
    \/ fg_pc = "create" /\ response' = NetworkError
    \/ fg_pc = "cycle_end" /\ fg_op' = "cancel_all" /\ cancel_status' = 0

\* Such a step leaves locked_cards and sent_trades as they were.
NetworkErrorKeepsState ==
    [][NetworkErrorStep
       => locked_cards' = locked_cards /\ sent_trades' = sent_trades]_vars

\* create_trade_direct_api and cancel_all_sent_trades return False when their
\* request raised a network error.
FalseOnNetworkError ==
    /\ (fg_pc = "created" /\ response = NetworkError) => ~create_ret
    /\ (fg_op = "cancel_all" /\ cancel_status = 0) => ~cancel_ret

C21_LockedExcludedAvailable ==
    /\ locked_cards \cap failed_attempts_set = {}
    /\ fg_pc = "send" =>
          selected_card.instance_id \notin locked_cards \cup failed_attempts_set

\* The positions of process_owner_with_retry inside an attempt
InAttempt == fg_pc \in {"select", "send", "create", "created", "result"}

\* C28: at each attempt for an owner, exclude_instances holds only instances
\* whose attempt failed earlier for that same owner, so at most attempt - 1 of
\* them, and none at the first attempt of an owner.
C28_ExclusionPerOwner ==
    InAttempt => Cardinality(exclude_instances) <= attempt - 1

\* A failed attempt that is followed by another one puts the instance it
\* offered into exclude_instances.
FailedInstanceExcluded ==
    fg_pc = "result" /\ fg_pc' = "select" =>
        selected_card.instance_id \in exclude_instances'

\* The selection of an attempt after the first returns another instance than
\* the one the previous attempt of the call offered.
NextAttemptDiffers ==
    fg_pc = "select" /\ attempt > 1 /\ fg_pc' = "send" =>
        selected_card'.instance_id # selected_card.instance_id

\* C27: within one call of process_owner_with_retry the instance of a failed
\* attempt is excluded and the next attempt offers a different instance.
C27_NoInstanceTwice == [][FailedInstanceExcluded /\ NextAttemptDiffers]_vars

\* A trade-creation request answered 422 makes create_trade_direct_api return
\* False and leaves locked_cards as it was.
SoftFailureOn422 ==
    fg_pc = "create" /\ response'.status = 422 =>
        ~create_ret' /\ locked_cards' = locked_cards

\* No request of a call asks for a partner's instance that an earlier request
\* of the same call was answered 422 for.
RefusedInstanceNotAskedAgain ==
    \A i, j \in DOMAIN app.create_log :
        i < j /\ app.create_log[i].status = 422 =>
            app.create_log[j].his # app.create_log[i].his

\* C26: a trade-creation request answered 422 is a soft failure (False, the
\* local item not locked), and no later request of the same owner's retry
\* sequence targets the same remote instance.
C26_SoftFailureNotRetargeted ==
    [][SoftFailureOn422]_vars /\ []RefusedInstanceNotAskedAgain

\* A trade-creation request answered 429 pauses the rate limiter for
\* retry_delay.
CoolDownOn429 ==
    fg_pc = "create" /\ response'.status = 429 =>
        paused_until' = now + retry_delay

\* send_trade_func has returned and the trade-creation request of the current
\* attempt was answered 429.
Throttled ==
    /\ fg_pc = "result"
    /\ app.create_log # <<>>
    /\ app.create_log[Len(app.create_log)].attempt = attempt
    /\ app.create_log[Len(app.create_log)].status = 429

\* What process_owner_with_retry does next after a throttled request leaves
\* the attempt number as it is and puts the offered instance neither into
\* exclude_instances nor into failed_attempts_set.
ThrottledNotCounted ==
    Throttled /\ fg_pc' # "result" =>
        /\ attempt' = attempt
        /\ selected_card.instance_id
               \notin exclude_instances' \cup failed_attempts_set'

\* C30: a 429 answer to a trade-creation request triggers the cool-down of the
\* rate limiter and is not counted as a failure: it consumes none of the
\* owner's MAX_RETRY_ATTEMPTS and does not exclude the offered instance.
C30_ThrottledNotAFailure == [][CoolDownOn429 /\ ThrottledNotCounted]_vars

\* The instances of the offers on the remote side in one of the statuses ss
OfferedIn(ss) ==
    {offers[k].inst : k \in {j \in DOMAIN offers : offers[j].status \in ss}}

\* locked_cards agrees with the remote side: the instance of every open offer
\* is locked, and every locked instance has an offer that was created and not
\* cancelled.
LocksMatchOffers ==
    /\ OfferedIn({"pending"}) \subseteq locked_cards
    /\ locked_cards \subseteq OfferedIn({"pending", "completed"})

\* A trade-creation call
CreationStep == fg_pc = "create" /\ fg_pc' = "created"

\* cancel_all_sent_trades called by the foreground loop
ForegroundCancelStep == fg_pc = "cycle_end" /\ fg_op' = "cancel_all"

\* The foreground thread is outside send_trade_to_owner
NoTradeCallInProgress == fg_pc \notin {"send", "create", "created"}

\* cancel_all_sent_trades called by BoostMonitor._cancel_pending_trades while
\* the foreground thread is in no trade call
MonitorCancelStep ==
    /\ NoTradeCallInProgress
    /\ Len(app.monitor_log') > 0
    /\ app.monitor_log'[Len(app.monitor_log')] = "rejectAll"
    /\ app.monitor_log' # app.monitor_log

\* OwnersProcessor.reset_state
ResetStep == fg_pc = "cycle_end" /\ fg_op' = "reset_state"

\* Trade creation keeps LocksMatchOffers.
CreationKeepsLocks ==
    [][CreationStep /\ LocksMatchOffers => LocksMatchOffers']_vars

\* The foreground loop's cancel-all keeps LocksMatchOffers.
ForegroundCancelKeepsLocks ==
    [][ForegroundCancelStep /\ LocksMatchOffers => LocksMatchOffers']_vars

\* The boost monitor's cancel-all keeps LocksMatchOffers.
MonitorCancelKeepsLocks ==
    [][MonitorCancelStep /\ LocksMatchOffers => LocksMatchOffers']_vars

\* reset_state keeps LocksMatchOffers.
ResetKeepsLocks ==
    [][ResetStep /\ LocksMatchOffers => LocksMatchOffers']_vars

\* C22: locked_cards holds exactly the instances the program has an outstanding
\* offer for, and trade creation, cancel-all issued by the foreground loop or
\* by the boost monitor, and the processor's reset all keep it that way.
C22_LocksMatchOffers ==
    [][(CreationStep \/ ForegroundCancelStep \/ MonitorCancelStep \/ ResetStep)
         /\ LocksMatchOffers => LocksMatchOffers']_vars

\* Every request of the kind named in the log of a flow comes after a cancel-all
\* request in the same log.
CancelAllPrecedes(log, request) ==
    \A i \in 1..Len(log) :
        log[i] = request => \E j \in 1..(i - 1) : log[j] = "rejectAll"

\* C24: in contribute_card, force_replace_card and perform_replacement no
\* contribution or replacement request is sent without an earlier cancel-all
\* request of the same flow.
C24_CancelBeforeRequest ==
    /\ CancelAllPrecedes(app.monitor_log, "boost")
    /\ CancelAllPrecedes(app.main_log, "replace")

C24_Witness ==
    /\ \E i \in 1..Len(app.monitor_log) : app.monitor_log[i] = "boost"
    /\ \E i \in 1..Len(app.main_log) : app.main_log[i] = "replace"
    /\ app.main_flow = "perform_replacement"

\* The main thread is in enter_wait_mode, or in a replacement called from it
InWaitMode ==
    \/ app.main_pc \in WaitPositions
    \/ app.main_ret = "wait" /\ app.main_pc \notin {"top", "process"}

\* A trade attempt is made only in an iteration whose forced can_donate checks
\* were made and reported donations available.
CheckedBeforeTradeAttempt ==
    sends' = sends + 1 => app.main_quota = "yes"

\* The forced check that reports no donations left sends the loop into
\* enter_wait_mode.
ExhaustedEntersWaitMode ==
    app.main_quota' = "no" /\ app.main_quota # "no" =>
        app.main_pc' = "wait_cancel"

\* enter_wait_mode is left only by its return, which follows a forced
\* can_donate that reported donations available.
WaitModeLeftAfterCheck ==
    /\ InWaitMode /\ ~InWaitMode' =>
           app.main_pc = "wait_leave" /\ app.main_pc' = "top"
    /\ app.main_pc' = "wait_leave" /\ app.main_pc # "wait_leave" =>
           st_op' = "can_donate" /\ st_force' /\ st_bool'

\* An iteration whose check reported no donations left is in wait mode and
\* has no call of process_owner_with_retry under way.
ExhaustedIsWaiting ==
    app.main_quota = "no" =>
        InWaitMode /\ fg_pc \in {"owners", "cycle_end"}

\* C23: in every iteration of run_processing_mode's loop a forced can_donate
\* comes before the first trade attempt; when it reports no donations left the
\* iteration makes no trade attempt and enters wait mode, which is left only
\* after a later forced check reported donations available.
C23_QuotaCheckBeforeTrades ==
    /\ [][CheckedBeforeTradeAttempt /\ ExhaustedEntersWaitMode
            /\ WaitModeLeftAfterCheck]_vars
    /\ []ExhaustedIsWaiting

C23_Witness ==
    /\ Processing
    /\ sends > 0
    /\ app.main_quota = "yes"

\* cancel_all_sent_trades called by a replacement flow
ReplacementCancelStep ==
    /\ Len(app.main_log') > Len(app.main_log)
    /\ app.main_log'[Len(app.main_log')] = "rejectAll"

\* cancel_all_sent_trades called by BoostMonitor's thread
AnyMonitorCancelStep ==
    \/ app.monitor_pc = "idle" /\ app.monitor_pc' = "changed"
    \/ /\ Len(app.monitor_log') > Len(app.monitor_log)
       /\ app.monitor_log'[Len(app.monitor_log')] = "rejectAll"

\* The remote has rejected a pending offer in this step
OfferRejected ==
    \E k \in DOMAIN offers :
        offers[k].status = "pending" /\ offers'[k].status = "cancelled"

\* check_and_remove_traded_cards has gone over the history as it is after the
\* step: the status recorded for every offer is its status on the remote side
StatusesReconciled ==
    \A k \in DOMAIN offers' : trade_statuses'[k] = offers'[k].status

\* The foreground loop's successful cancel-all is followed by force_check.
ForegroundCancelReconciles ==
    [][h_pc # "off" /\ ForegroundCancelStep /\ OfferRejected
          => StatusesReconciled]_vars

\* C31: with a history monitor, a cancel-all answered 200 is followed by
\* force_check before it returns, whether the foreground loop, the boost
\* monitor or a replacement flow called it.
C31_CancelReconciles ==
    [][h_pc # "off" /\ OfferRejected
         /\ (ForegroundCancelStep \/ AnyMonitorCancelStep \/ ReplacementCancelStep)
          => StatusesReconciled]_vars

\* C25: in live mode at least MIN_TRADE_DELAY seconds lie between two
\* consecutive calls of send_trade_func by the OwnersProcessor, whether the
\* earlier one succeeded or failed.
C25_MinTradeDelay ==
    [][sends' = sends + 1 /\ app.last_send # 0 =>
           time_time - app.last_send >= MIN_TRADE_DELAY]_vars

--------------------------------------------------------------------------
(* Claims on the history monitor *)

\* C12: an offer that check_and_remove_traded_cards has observed completed
\* in two or more polls has had its traded-away card removed from the local
\* inventory exactly once.
C12_RemovedExactlyOnce ==
    \A k \in DOMAIN offers :
        completed_polls[k] >= 2 => Len(removed_for[k]) = 1

\* C13: when check_and_remove_traded_cards observes cancelled an offer it
\* had observed completed, the card it removed for that offer is back in the
\* local inventory after the observation.
C13_RestoredOnCancel ==
    [][\A k \in DOMAIN offers :
          (trade_statuses[k] = "completed" /\ trade_statuses'[k] = "cancelled"
              /\ removed_for[k] # <<>>)
          => removed_for[k][1] \in inventory']_vars

\* The instance ids the selection can draw from: those of inventory.json and
\* those of the records of parsed_inventory.json.
local_inventory(inv, cache) ==
    inv \cup {cache[c].instance_id : c \in {d \in Cards : cache[d] # None}}

\* C14: once a None -> completed transition of an offer has been processed,
\* the traded-away instance is in neither inventory.json nor
\* parsed_inventory.json.
C14_AbsentAfterCompleted ==
    [][\A k \in DOMAIN offers :
          (trade_statuses[k] = "none" /\ trade_statuses'[k] = "completed")
          => offers[k].inst \notin local_inventory(inventory', parsed')]_vars

--------------------------------------------------------------------------
(* Claims on the daily statistics *)

\* C15: can_donate(force_refresh=True) whose fetch succeeded returns true
\* exactly when the snapshot just fetched has donations_used below
\* donations_max, whatever was cached before the call.
C15_CanDonateForced ==
    (st_op = "can_donate" /\ st_force /\ st_page.status = 200)
    => (st_bool <=> fetch_stats_from_page(st_page).donations_used
                      < fetch_stats_from_page(st_page).donations_max)

\* can_donate(force_refresh=True) returned true on a page showing 0 of 50
\* while the cached snapshot was 50 of 50.
C15_Witness ==
    /\ st_op = "can_donate" /\ st_force /\ st_bool
    /\ st_page.status = 200 /\ st_page.donations = <<0, 50>>
    /\ st_before.donations_used = 50 /\ st_before.donations_max = 50

\* C16: when the fetch fails, a forced get_stats returns a snapshot with
\* donations_used = 0 and replacements_used = 0, and the forced can_donate,
\* can_replace and can_work return true, whatever was cached.
C16_PermissiveOnFailure ==
    (st_force /\ st_page.status # 200
        /\ st_op \in {"get_stats", "can_donate", "can_replace", "can_work"})
    => /\ st_stats.donations_used = 0
       /\ st_stats.replacements_used = 0
       /\ st_op # "get_stats" => st_bool

\* A forced can_work returned true on a failed fetch while the cached
\* snapshot had both limits exhausted.
C16_Witness ==
    /\ st_op = "can_work" /\ st_force /\ st_bool
    /\ st_page.status # 200
    /\ st_before # NoStats
    /\ st_before.donations_left <= 0 /\ st_before.replacements_left <= 0

--------------------------------------------------------------------------
(* Claims on the rate limiter *)

\* The requests recorded in the window of window_seconds ending at time t.
InWindow(t) ==
    {i \in DOMAIN recorded : recorded[i] > t - window_seconds /\ recorded[i] <= t}

\* C1: with a single caller, the number of recorded request timestamps in any
\* rolling window of window_seconds never exceeds max_requests.
C1_WindowLimitSingleCaller ==
    (callers = {1}) =>
        \A t \in 0..MaxTime : Cardinality(InWindow(t)) <= max_requests

\* C2: with several threads calling wait_and_record, the requests recorded by
\* all of them together in any rolling window never exceed max_requests.
C2_WindowLimitAllCallers ==
    \A i \in DOMAIN recorded :
        Cardinality({j \in DOMAIN recorded :
                        recorded[j] > recorded[i] - window_seconds
                        /\ recorded[j] <= recorded[i]}) <= max_requests

\* A caller that waits a pause out leaves paused_until at 0.
PauseReset ==
    [][\A th \in Threads :
          (rl_pc[th] = "called" /\ rl_pc'[th] = "record" /\ paused_until > now)
          => paused_until' = 0]_vars

\* C17: after pause_for_429 at time t no wait_and_record call of any thread
\* records a request before t + retry_delay, and a caller that waits a pause
\* out leaves paused_until at 0.
C17_NoRecordDuringPause == [](early_records = {}) /\ PauseReset

\* C18: under fair scheduling every wait_and_record call returns, whatever
\* the other thread does with wait_and_record and pause_for_429.
C18_EveryCallReturns ==
    \A th \in Threads : (rl_pc[th] = "called") ~> (rl_pc[th] = "idle")

\* A call found a pause set, waited it out and returned while the other
\* thread was inside wait_and_record.
C18_Witness ==
    \E th \in Threads :
        /\ rl_pc[th] = "idle"
        /\ recorded # <<>> /\ pause_end > 0 /\ paused_until = 0
        /\ recorded[Len(recorded)] >= pause_end
        /\ \E other \in Threads \ {th} : rl_pc[other] # "idle"

\* contribute_card has found the same card id after its contribution: the
\* boost request is the last request of the flow
SameCardAfterContribution ==
    /\ app.monitor_pc = "refresh"
    /\ Len(app.monitor_log) > 0
    /\ app.monitor_log[Len(app.monitor_log)] = "boost"

\* monitor_loop is back from contribute_card
ContributionReturns == app.monitor_pc \in {"refresh", "failed"} /\ app.monitor_pc' = "idle"

\* C32: a contribute flow after which the club's card id is the same as before
\* the contribution leaves card_changed false.
C32_SameCardKeepsFlag ==
    [][SameCardAfterContribution /\ ContributionReturns /\ ~card_changed
         => ~card_changed']_vars

--------------------------------------------------------------------------
(* trade.py: find_partner_card_instance, request by request. The search's
   locals are the fields of app; the limiter's waits are left out. *)

\* An empty range ends the search once it is at least range number min_batches
min_batches == 3

\* The cards of a range as the remote lists them: card_id is the card's kind
\* wherever the entry carries it (0: nowhere), id the instance (0: missing),
\* locked and in_trade the flags under any of their names.
other_card_id == 8
MaxPage == 2
RemoteCards ==
    [card_id : {0, his_card_id, other_card_id}, id : {0} \cup PartnerInstances,
     locked : BOOLEAN, in_trade : BOOLEAN]
\* A list names an instance once.
RemotePages ==
    {cards \in UNION {[1..n -> RemoteCards] : n \in 0..MaxPage} :
        \A i, j \in DOMAIN cards :
            cards[i].id # 0 /\ cards[i].id = cards[j].id => i = j}

\* A scan of a range that takes the first entry of the wanted kind, flagged or
\* not
first_available_any(cards, card_id) ==
    LET hits == {i \in 1..Len(cards) :
                    cards[i].card_id = card_id /\ cards[i].id # 0}
    IN  IF hits = {} THEN 0
        ELSE cards[CHOOSE i \in hits : \A j \in hits : i <= j].id

\* The loop over the cards of a range: the instance of the first entry of the
\* wanted kind that has an id and is neither locked nor in a trade, 0 if none
first_available(cards, card_id) ==
    LET hits == {i \in 1..Len(cards) :
                    /\ cards[i].card_id = card_id
                    /\ cards[i].id # 0
                    /\ ~(cards[i].locked \/ cards[i].in_trade)}
    IN  IF hits = {} THEN 0
        ELSE cards[CHOOSE i \in hits : \A j \in hits : i <= j].id

\* The range lists an instance of the wanted kind that is free
lists_free_instance(cards, card_id) ==
    \E i \in 1..Len(cards) :
        /\ cards[i].card_id = card_id
        /\ cards[i].id # 0
        /\ ~cards[i].locked
        /\ ~cards[i].in_trade

\* An empty range that ends the search wherever it comes
empty_range_ends_always(batch_count) == batch_count >= 0

\* Whether an empty range at batch_count ends the search
empty_range_ends(batch_count) == batch_count >= min_batches - 1

\* The search has not begun. tries counts the requests made for the range at
\* batch_count, up to one more than MAX_TIMEOUT_RETRIES; asked counts the
\* ranges requested so far; cards is the list of cards the search ended on;
\* passed tells whether a range the search went past listed an instance of
\* the wanted kind that was free.
FindStart ==
    [pc |-> "idle", batch_count |-> 0, timeout_retry |-> 0, tries |-> 0,
     asked |-> 0, cards |-> <<>>, result |-> 0, ended |-> "", passed |-> FALSE]

\* offset += CARDS_PER_BATCH; batch_count += 1, and the test of the while loop
NextRange ==
    [app EXCEPT !.batch_count = @ + 1, !.timeout_retry = 0, !.tries = 0,
                !.pc = IF app.batch_count + 1 < max_batches THEN "request"
                       ELSE "done",
                !.ended = IF app.batch_count + 1 < max_batches THEN ""
                          ELSE "exhausted",
                !.result = 0]

\* One more request for the range at batch_count
Requested ==
    [app EXCEPT !.tries = IF @ > MAX_TIMEOUT_RETRIES THEN @ ELSE @ + 1,
                !.asked = IF app.tries = 0 THEN @ + 1 ELSE @]

FindUnchanged == UNCHANGED <<rl_vars, sel_vars, fg_vars, h_vars, st_vars>>

\* find_partner_card_instance is called
FindCall ==
    /\ app.pc \in {"idle", "done"}
    /\ app' = [FindStart EXCEPT !.pc = "request"]
    /\ FindUnchanged

\* session.post raises Timeout or another RequestException: the request is
\* repeated, or after MAX_TIMEOUT_RETRIES tries the range is skipped
FindTimeout ==
    /\ app.pc = "request"
    /\ app' = IF app.timeout_retry < MAX_TIMEOUT_RETRIES - 1
              THEN [Requested EXCEPT !.timeout_retry = @ + 1]
              ELSE [NextRange EXCEPT !.asked = Requested.asked]
    /\ FindUnchanged

\* The answer is 429: pause_for_429 and continue, the same range is asked for
\* again with a retry loop of its own
FindRateLimited ==
    /\ app.pc = "request"
    /\ app' = [Requested EXCEPT !.timeout_retry = 0]
    /\ FindUnchanged

\* The answer is not 200, or is not JSON: the next range
FindRejected ==
    /\ app.pc = "request"
    /\ app' = [NextRange EXCEPT !.asked = Requested.asked]
    /\ FindUnchanged

\* The answer is a list of cards, which may be empty
FindCards ==
    /\ app.pc = "request"
    /\ \E cards \in RemotePages :
         app' = IF cards = <<>>
                THEN IF empty_range_ends(app.batch_count)
                     THEN [Requested EXCEPT !.pc = "done", !.ended = "empty",
                                            !.cards = cards, !.result = 0]
                     ELSE [NextRange EXCEPT !.asked = Requested.asked]
                ELSE IF first_available(cards, his_card_id) # 0
                THEN [Requested EXCEPT
                         !.pc = "done", !.ended = "found", !.cards = cards,
                         !.result = first_available(cards, his_card_id)]
                ELSE [NextRange EXCEPT
                         !.asked = Requested.asked,
                         !.passed = @ \/ lists_free_instance(cards, his_card_id)]
    /\ FindUnchanged

InitFind ==
    /\ FlowInitOf("off", {})
    /\ target_wanters = 6
    /\ app = FindStart

FindNext ==
    \/ FindCall
    \/ FindTimeout
    \/ FindRateLimited
    \/ FindRejected
    \/ FindCards

SpecFind == InitFind /\ [][FindNext]_vars

\* The request loop is a sequential program: it takes its next step.
SpecFindFair == SpecFind /\ WF_vars(FindNext)

\* C33: a search that ends on an empty range has requested at least
\* min_batches ranges; an empty range among the first min_batches - 1 does
\* not end it.
C33_EmptyRangeAfterMinBatches ==
    app.pc = "done" /\ app.ended = "empty" => app.asked >= min_batches

\* A search has ended on an empty range, the third it requested, with ranges
\* left to ask for
C33_Witness ==
    /\ app.pc = "done" /\ app.ended = "empty"
    /\ app.asked = min_batches
    /\ app.asked < max_batches

\* The entries of the wanted kind in the list the search ended on
WantedEntries == {i \in DOMAIN app.cards : app.cards[i].card_id = his_card_id}

\* C34: the instance find_partner_card_instance returns is listed by the
\* remote as an instance of the wanted card that is neither locked nor in a
\* trade, and the search goes past no range that lists such an instance.
C34_ReturnsFreeInstance ==
    /\ ~app.passed
    /\ app.pc = "done" /\ app.ended = "found" =>
         /\ app.result # 0
         /\ \E i \in WantedEntries : app.cards[i].id = app.result
         /\ \A i \in WantedEntries :
                app.cards[i].id = app.result =>
                    ~app.cards[i].locked /\ ~app.cards[i].in_trade

\* The search has returned the free instance listed after a locked and after
\* a traded one of the same card
C34_Witness ==
    /\ app.pc = "done" /\ app.ended = "found"
    /\ \E i, j \in WantedEntries :
         /\ i < j
         /\ app.cards[i].id # 0
         /\ app.cards[i].locked \/ app.cards[i].in_trade
         /\ app.cards[j].id = app.result

\* Every started search ends
SearchEnds == app.pc = "request" ~> app.pc = "done"

\* C35: find_partner_card_instance requests at most max_batches ranges and
\* each range at most MAX_TIMEOUT_RETRIES times, whatever the remote answers.
C35_SearchBounded ==
    /\ app.asked <= max_batches
    /\ app.tries <= MAX_TIMEOUT_RETRIES

--------------------------------------------------------------------------
(* main.py and monitor.py: the target card handed from BoostMonitor's thread
   to run_processing_mode through boost_card.json and card_changed. The club
   page leaves donations and no replacement is ordered or needed. *)

\* The club's card changes at most MaxChanges times: cards 1 .. MaxChanges + 1
MaxChanges == 2

\* run_processing_mode: _load_current_boost_card at the top of an iteration
LoadCurrentBoostCard ==
    /\ app.main_pc = "top"
    /\ app' = [app EXCEPT !.current_card_id = app.card_file,
                          !.main_pc = "loaded"]
    /\ UNCHANGED <<rl_vars, sel_vars, fg_vars, h_vars, st_vars>>

\* run_processing_mode: monitor.card_changed = False, and the cycle over the
\* owners begins with the card loaded before. stale_cycle records that the
\* monitor has signalled another card than the one the cycle is for.
ClearCardChanged ==
    /\ app.main_pc = "loaded"
    /\ card_changed' = FALSE
    /\ app' = [app EXCEPT
                 !.main_pc = "process",
                 !.stale_cycle = app.signalled # 0
                                   /\ app.signalled # app.current_card_id]
    /\ UNCHANGED <<rl_vars, sel_vars, h_vars, st_vars, cycle_count, fg_pc,
                   fg_op, owner_idx, attempt, failed_attempts_set, sends,
                   creates, ret, his_instance_id, find_error, success,
                   sent_trades, response, create_ret, cancel_status,
                   cancel_ret>>

\* handle_card_change_without_boost or contribute_card: the new card was
\* fetched and _save_boost_card writes it to boost_card.json
SaveBoostCard ==
    /\ app.monitor_pc = "changed"
    /\ app.card_file <= MaxChanges
    /\ app' = [app EXCEPT !.card_file = @ + 1, !.monitor_pc = "saved"]
    /\ UNCHANGED <<st_vars, offers, card_changed>>
    /\ MonitorUnchanged

\* The thread's next statements: current_card_id and card_changed = True
SetCardChanged ==
    /\ app.monitor_pc = "saved"
    /\ card_changed' = TRUE
    /\ app' = [app EXCEPT !.signalled = app.card_file, !.monitor_pc = "idle"]
    /\ UNCHANGED <<st_vars, offers>>
    /\ MonitorUnchanged

\* The end of an iteration of run_processing_mode
BackToTop == [app EXCEPT !.main_pc = "top", !.stale_cycle = FALSE]

InitSignal ==
    /\ FlowInitOf("off", BoostFlowInventory)
    /\ target_wanters = 6
    /\ app = [AppStart EXCEPT !.main_pc = "top", !.monitor_pc = "idle"]

SignalNext ==
    \/ LoadCurrentBoostCard
    \/ ClearCardChanged
    \/ Processing /\ NextOwner /\ UNCHANGED app
    \/ Processing /\ StartOwner /\ UNCHANGED app
    \/ Processing /\ SelectCard /\ UNCHANGED app
    \/ Processing /\ SendTrade /\ UNCHANGED app
    \/ Processing /\ CreateTrade /\ UNCHANGED app
    \/ Processing /\ MarkTradeSent /\ UNCHANGED app
    \/ Processing /\ AfterSend /\ UNCHANGED app
    \/ Processing /\ FinishPages /\ UNCHANGED app
    \/ Processing /\ CancelAllSentTrades /\ app' = BackToTop
    \/ Processing /\ ResetState /\ app' = BackToTop
    \/ app.card_file <= MaxChanges /\ HandleCardChange
    \/ SaveBoostCard
    \/ SetCardChanged

SpecSignal == InitSignal /\ [][SignalNext]_vars

\* A cycle over the owners has run to its end: every owner was taken
FullCycleDone ==
    app.main_pc = "process" /\ fg_pc = "cycle_end" /\ owner_idx > NumOwners

\* C36: once BoostMonitor's thread has saved a new card and set card_changed,
\* run_processing_mode runs no full cycle over the owners for the card it
\* loaded before.
C36_NoStaleCycle == ~(app.stale_cycle /\ FullCycleDone)

--------------------------------------------------------------------------
(* trade.py: send_trade_to_owner, one call after the other on the processor's
   TradeManager. Only the foreground thread uses that manager, so a call is
   one step. The fields of app record the calls. *)

\* The local instances offered (0: none) and the cards asked for
OfferedInstances == {0, 2, 3}
WantedCards == {his_card_id, other_card_id}
Pairs == (1..NumOwners) \X WantedCards

\* created counts, per pair, the offers create_trade_direct_api has reported
\* created since sent_trades was cleared last (2: two or more); last is the
\* last call: its pair, whether the pair was in sent_trades when it began, the
\* requests it issued and what it returned. dry_run is the run's --dry-run.
PairsStart ==
    [dry_run |-> FALSE, created |-> [p \in Pairs |-> 0],
     last |-> [pair |-> <<0, 0>>, was_sent |-> FALSE, resolved |-> FALSE,
               requested |-> FALSE, ret |-> FALSE]]

\* What a call of send_trade_to_owner leaves unchanged
SendUnchanged ==
    UNCHANGED <<rl_vars, h_vars, st_vars, inventory, parsed, target_wanters,
                exclude_instances, selected_card, sel_path, norm_in, norm_out,
                cycle_count, card_changed, fg_pc, fg_op, owner_idx, attempt,
                failed_attempts_set, sends, creates, ret, his_instance_id,
                find_error, success, response, create_ret, cancel_status,
                cancel_ret>>

\* The call returns before any request
ReturnsAtOnce(pair, result) ==
    /\ app' = [app EXCEPT !.last = [pair |-> pair,
                                    was_sent |-> pair \in sent_trades,
                                    resolved |-> FALSE, requested |-> FALSE,
                                    ret |-> result]]
    /\ UNCHANGED <<sent_trades, locked_cards>>

\* send_trade_to_owner
send_trade_to_owner ==
    /\ \E pair \in Pairs, my_instance_id \in OfferedInstances :
         IF my_instance_id = 0 THEN ReturnsAtOnce(pair, FALSE)
         ELSE IF ~app.dry_run /\ has_trade_sent(pair[1], pair[2])
         THEN ReturnsAtOnce(pair, FALSE)
         ELSE IF app.dry_run THEN ReturnsAtOnce(pair, TRUE)
         ELSE \E found \in find_partner_card_instance, r \in Responses :
                LET asked == found.his # 0
                    out == IF asked
                           THEN create_trade_outcome(my_instance_id,
                                    IF my_instance_id \in locked_cards
                                    THEN NoResponse ELSE r, locked_cards)
                           ELSE [ret |-> FALSE, locked |-> locked_cards]
                IN  /\ locked_cards' = out.locked
                    /\ sent_trades' = IF out.ret THEN sent_trades \cup {pair}
                                      ELSE sent_trades
                    /\ app' = [app EXCEPT
                                 !.created[pair] = IF out.ret /\ @ < 2
                                                   THEN @ + 1 ELSE @,
                                 !.last = [pair |-> pair,
                                           was_sent |-> pair \in sent_trades,
                                           resolved |-> TRUE,
                                           requested |-> asked
                                               /\ my_instance_id \notin locked_cards,
                                           ret |-> out.ret]]
    /\ SendUnchanged

\* sent_trades is cleared: clear_sent_trades in a cancel-all answered 200, or
\* reset_state
ClearSentTrades ==
    /\ sent_trades # {}
    /\ sent_trades' = clear_sent_trades(sent_trades, locked_cards).sent
    /\ locked_cards' = clear_sent_trades(sent_trades, locked_cards).locked
    /\ app' = [app EXCEPT !.created = PairsStart.created]
    /\ SendUnchanged

InitPairs ==
    /\ FlowInitOf("off", {})
    /\ target_wanters = 6
    /\ \E dry_run \in BOOLEAN : app = [PairsStart EXCEPT !.dry_run = dry_run]

PairsNext ==
    \/ send_trade_to_owner
    \/ ClearSentTrades

SpecPairs == InitPairs /\ [][PairsNext]_vars

\* C37: between two clears of sent_trades at most one offer is reported
\* created for a pair of owner and wanted card, and a call for a pair that is
\* in sent_trades issues no request to find the partner's instance or to create
\* an offer.
C37_OneOfferPerPair ==
    /\ \A p \in Pairs : app.created[p] <= 1
    /\ app.last.was_sent => ~app.last.resolved /\ ~app.last.requested /\ ~app.last.ret

\* An offer was created for a pair, and the last call, for the same pair,
\* returned at once
C37_Witness ==
    /\ app.last.was_sent
    /\ app.last.pair \in Pairs
    /\ app.last.pair \in sent_trades
    /\ app.created[app.last.pair] = 1
    /\ ~app.last.resolved

--------------------------------------------------------------------------
(* Claims on the history monitor's polls *)

\* An offer that the polls of check_and_remove_traded_cards have observed
\* completed twice has had its traded-away card removed from inventory.json
CompletedIsRemoved ==
    \A k \in DOMAIN offers :
        completed_polls[k] >= 2 /\ h_pc # "save" => removed_for[k] # <<>>

\* C38: a poll that records completed for an offer it had recorded pending
\* removes the traded-away card from inventory.json when a card of that kind
\* is there and none was removed for the kind before.
C38_PendingCompletedRemoves ==
    [][\A k \in DOMAIN offers :
          (/\ trade_statuses[k] = "pending" /\ trade_statuses'[k] = "completed"
           /\ offers[k].card \notin traded_away_cards
           /\ first_card_to_remove(inventory, offers[k].card) # 0)
          => h_pc' = "save" \/ removed_for'[k] # <<>>]_vars

\* _remove_card_from_inventory saves the inventory it loaded
HistorySaveStep == h_pc = "save" /\ h_pc' # "save"

\* C39: when _remove_card_from_inventory saves, inventory.json holds what it
\* held just before without the card the monitor removes: a card that
\* InventoryManager.remove_card has removed in the meantime stays removed.
C39_BothRemovalsKept ==
    [][HistorySaveStep =>
         inventory' = inventory \ {first_card_to_remove(
                                      h_inv, h_trades[h_idx].lost_card)}]_vars

--------------------------------------------------------------------------
(* trade.py and monitor.py: start, stop and monitor_loop of a background
   monitor. TradeHistoryMonitor and BoostMonitor have the same three methods;
   the fields of app are the monitor's running and thread, the position of
   the caller of start and stop, and the threads created so far. *)

\* start creates at most MaxThreads threads
MaxThreads == 3

\* loop_pc: "none" before the thread is created, "test" at the test of
\* `while self.running`, "check" in an iteration, "sleep" in time.sleep,
\* "done" after the loop. stopped tells that stop was called for the thread;
\* noop that the last start returned at `if self.running`; ran that the
\* thread has been through an iteration.
ThreadsStart ==
    [running |-> FALSE, thread |-> 0, caller_pc |-> "idle", noop |-> FALSE,
     loop_pc |-> [i \in 1..MaxThreads |-> "none"],
     ran |-> [i \in 1..MaxThreads |-> FALSE],
     stopped |-> [i \in 1..MaxThreads |-> FALSE]]

ThreadsUnchanged == UNCHANGED <<rl_vars, sel_vars, fg_vars, h_vars, st_vars>>

\* start(): nothing when running, else running is set and a thread begins
\* monitor_loop
start ==
    /\ app.caller_pc = "idle"
    /\ IF app.running
       THEN app' = [app EXCEPT !.noop = TRUE]
       ELSE /\ app.thread < MaxThreads
            /\ app' = [app EXCEPT !.running = TRUE, !.noop = FALSE,
                                  !.thread = @ + 1,
                                  !.loop_pc[app.thread + 1] = "test"]
    /\ ThreadsUnchanged

\* stop() up to the join: nothing when not running, else running is cleared
stop ==
    /\ app.caller_pc = "idle"
    /\ app.running
    /\ app' = [app EXCEPT !.running = FALSE, !.caller_pc = "join",
                          !.stopped[app.thread] = TRUE]
    /\ ThreadsUnchanged

\* thread.join(timeout=5) returns: the thread has ended, or the five seconds
\* have passed
JoinReturns ==
    /\ app.caller_pc = "join"
    /\ app' = [app EXCEPT !.caller_pc = "idle"]
    /\ ThreadsUnchanged

\* monitor_loop: the test of `while self.running`
LoopTest(i) ==
    /\ app.loop_pc[i] = "test"
    /\ app' = [app EXCEPT !.loop_pc[i] = IF app.running THEN "check" ELSE "done"]
    /\ ThreadsUnchanged

\* monitor_loop: one iteration, up to its time.sleep
LoopCheck(i) ==
    /\ app.loop_pc[i] = "check"
    /\ app' = [app EXCEPT !.loop_pc[i] = "sleep", !.ran[i] = TRUE]
    /\ ThreadsUnchanged

\* monitor_loop: time.sleep returns
LoopWake(i) ==
    /\ app.loop_pc[i] = "sleep"
    /\ app' = [app EXCEPT !.loop_pc[i] = "test"]
    /\ ThreadsUnchanged

InitThreads ==
    /\ FlowInitOf("off", {})
    /\ target_wanters = 6
    /\ app = ThreadsStart

ThreadsNext ==
    \/ start
    \/ stop
    \/ JoinReturns
    \/ \E i \in 1..MaxThreads : LoopTest(i)
    \/ \E i \in 1..MaxThreads : LoopCheck(i)
    \/ \E i \in 1..MaxThreads : LoopWake(i)

SpecThreads == InitThreads /\ [][ThreadsNext]_vars

\* The threads that are in monitor_loop's loop
ActiveLoops == {i \in 1..MaxThreads : app.loop_pc[i] \in {"test", "check", "sleep"}}

\* start() while running starts no thread
StartWhileRunningStartsNothing ==
    [][app.running => app.thread' = app.thread]_vars

\* At most one thread is in an iteration of the loop
OneLoopIterates ==
    Cardinality({i \in ActiveLoops : app.loop_pc[i] = "check"}) <= 1

\* C40: a loop thread for which stop() was called begins no further
\* iteration, also when start() is called again while it sleeps.
C40_StoppedLoopEnds ==
    [][\A i \in 1..MaxThreads :
          app.stopped[i] => ~(app.loop_pc[i] = "test" /\ app.loop_pc'[i] = "check")]_vars

==========================================================================
